---- MODULE Spec2Model ----
(***************************************************************************)
(* A model of the atomic Game of Life: the bit-packed AtomicCell, the      *)
(* toroidal AtomicGrid, the snapshot-then-apply AtomicGenerator and the    *)
(* multi-worker driver of example/src/main.rs.                             *)
(***************************************************************************)
EXTENDS Integers, Naturals, Sequences, FiniteSets, TLC

(***************************************************************************)
(* Bounds of the model.                                                    *)
(***************************************************************************)
\* threads that operate concurrently on the one AtomicCell of SpecCell
NThreads == 2
\* grids of SpecGrid, SpecGet and SpecPart have 1..MaxH rows, 1..MaxW columns
MaxH == 3
MaxW == 3
\* calls made on the grid in one run of SpecGrid
MaxOps == 3
\* coordinates handed to get reach MaxOff cells beyond the grid on each side
MaxOff == 2
\* generations run by SpecGen (GENERATIONS of main.rs, scaled down)
GENERATIONS == 2
\* SpecPart partitions grids of 1..MaxSide rows and columns among
\* 1..MaxThreads workers
MaxSide == 6
\* SpecMT runs the threads on grids of at most MaxCells cells
MaxCells == 6
\* SpecShape stamps a shape on square tori of side 4..MaxShapeSide and runs
\* up to MaxShapeGens generations
MaxShapeSide == 6
MaxShapeGens == 4
\* SpecCopy copies grids of at most MaxCopy cells
MaxCopy == 2
MaxLifeSide == 4
MaxLifeCells == 16
MaxLifeOps == 3
MaxLifeGens == 2
MaxThreads == 5

VARIABLES
    \* ---- SpecCell: one AtomicCell shared by NThreads threads
    state,      \* AtomicCell.state, the packed byte (AtomicU8)
    tpc,        \* per thread: "idle", "cas" (inside fetch_update), "panicked"
    top,        \* per thread: the operation in progress ("none" when idle)
    tprev,      \* per thread: the value fetch_update last observed (prev)
    tpos,       \* per thread: its place in its spawn_shape calls (SpecThreads)
    \* ---- the grid (SpecGrid, SpecGet, SpecPart)
    H, W,       \* the const generics of AtomicGrid<H, W>
    T,          \* THREAD_COUNT, the number of worker threads
    grid,       \* the live grid: AtomicGrid.cells, index -> packed byte
    cache,      \* AtomicGenerator.cache, index -> packed byte
    failed,     \* a contract failure (panic) has ended the run
    lastop,     \* the call that made the last step
    nops,       \* calls made so far
    seedn,      \* cells of the seed pattern read so far
    \* ---- multi_threaded (SpecMT): the driver, the workers, what they share
    dpc,        \* the driver's (main thread's) position in multi_threaded
    joined,     \* handles the driver has joined
    snap,       \* cache snapshots (u_update_cache) the driver has taken
    worker,     \* per worker i: pc, and its place in update_grid_range
    cache_ready,  \* cache_updated.0, the flag under the mutex
    cache_lock,   \* who holds the mutex of cache_updated
    done_count,   \* threads_done.0
    stop_signal,  \* stop_signal
    barrier,      \* threads waiting in barrier.wait()
    seed,         \* the grid as randomize_grid left it
    \* ---- pure functions under check (SpecGet, SpecPart)
    args,       \* the inputs drawn
    ret         \* what the code computed from them

cellVars == <<state, tpc, top, tprev, tpos>>
gridVars == <<H, W, T, grid, cache, failed, lastop, nops, seedn>>
pureVars == <<args, ret>>
mtVars == <<dpc, joined, snap, worker, cache_ready, cache_lock, done_count,
            stop_signal, barrier, seed>>

vars == <<state, tpc, top, tprev, tpos, H, W, T, grid, cache, failed, lastop,
          nops,
          seedn, args, ret, dpc, joined, snap, worker, cache_ready,
          cache_lock, done_count, stop_signal, barrier, seed>>

(***************************************************************************)
(* u8 arithmetic and the packed byte: bit 0 alive, bits 1-4 the count.     *)
(***************************************************************************)
Byte == 0..255

\* the closure's None: fetch_update gives up and returns Err
None == -1

\* (b >> 1) & 0b1111, as in AtomicCell::neighbors and the update closures
neighbors(b) == (b \div 2) % 16

\* b & 1 == 1
alive(b) == b % 2 = 1

\* closure of AtomicCell::spawn: Some(old | 1)
spawn_f(old) == IF old % 2 = 1 THEN old ELSE old + 1

\* mutant of kill_f: the mask takes the lowest count bit too
kill_f_WideMask(old) == old - (old % 4)

\* closure of AtomicCell::kill: Some(old & !1)
kill_f(old) == old - (old % 2)

\* mutant of add_neighbor_f: the guard lets the count pass 8
add_neighbor_f_NoGuard(old) ==
    LET count == (old \div 2) % 16
    IN  ((old % 2) + ((count + 1) * 2)) % 256

\* closure of AtomicCell::add_neighbor:
\*   count = (old >> 1) & 0b1111;
\*   if count + 1 <= 8 { Some((old & 1) | ((count + 1) << 1)) } else { None }
add_neighbor_f(old) ==
    LET count == (old \div 2) % 16
    IN  IF count + 1 <= 8
        THEN ((old % 2) + ((count + 1) * 2)) % 256
        ELSE None

\* mutant of remove_neighbor_f: a count of 0 is clamped, not refused
remove_neighbor_f_Clamp(old) ==
    LET count == (old \div 2) % 16
    IN  IF count > 0
        THEN ((old % 2) + ((count - 1) * 2)) % 256
        ELSE old

\* closure of AtomicCell::remove_neighbor:
\*   if count > 0 { Some((old & 1) | ((count - 1) << 1)) } else { None }
remove_neighbor_f(old) ==
    LET count == (old \div 2) % 16
    IN  IF count > 0
        THEN ((old % 2) + ((count - 1) * 2)) % 256
        ELSE None

CellOps == {"spawn", "kill", "add_neighbor", "remove_neighbor"}

\* the closure each operation hands to fetch_update
closure(op, old) ==
    CASE op = "spawn"           -> spawn_f(old)
      [] op = "kill"            -> kill_f(old)
      [] op = "add_neighbor"    -> add_neighbor_f(old)
      [] op = "remove_neighbor" -> remove_neighbor_f(old)

(***************************************************************************)
(* SpecCell: threads run spawn / kill / add_neighbor / remove_neighbor on  *)
(* one shared cell.  Each operation is AtomicU8::fetch_update: load prev,  *)
(* then loop { next = f(prev)?; compare_exchange_weak(prev, next) } with a *)
(* failed exchange reloading prev.  A closure that answers None makes      *)
(* fetch_update return Err, and unwrap/expect panics the calling thread.   *)
(***************************************************************************)
Threads == 1..NThreads

\* the parts of the state a specification does not use keep these values
NoGrid ==
    /\ H = 1 /\ W = 1 /\ T = 1
    /\ grid = [i \in 0..0 |-> 0]
    /\ cache = [i \in 0..0 |-> 0]
    /\ failed = FALSE
    /\ lastop = [kind |-> "new"]
    /\ nops = 0
    /\ seedn = 0

NoCell ==
    /\ state = 0
    /\ tpc = [t \in Threads |-> "idle"]
    /\ top = [t \in Threads |-> "none"]
    /\ tprev = [t \in Threads |-> 0]
    /\ tpos = <<>>

NoPure ==
    /\ args = <<>>
    /\ ret = <<>>

NoMT ==
    /\ dpc = "none" /\ joined = 0 /\ snap = 0
    /\ worker = <<>>
    /\ cache_ready = FALSE /\ cache_lock = "free"
    /\ done_count = 0 /\ stop_signal = FALSE /\ barrier = 0
    /\ seed = <<>>

InitCell ==
    /\ NoGrid /\ NoPure /\ NoMT
    /\ state = 0                         \* AtomicU8::new(0)
    /\ tpc = [t \in Threads |-> "idle"]
    /\ top = [t \in Threads |-> "none"]
    /\ tprev = [t \in Threads |-> 0]
    /\ tpos = <<>>

\* a thread calls one of the four operations: fetch_update's first load
CellBegin(t, op) ==
    /\ tpc[t] = "idle"
    /\ tpc' = [tpc EXCEPT ![t] = "cas"]
    /\ top' = [top EXCEPT ![t] = op]
    /\ tprev' = [tprev EXCEPT ![t] = state]
    /\ UNCHANGED <<state, tpos, gridVars, pureVars, mtVars>>

\* one turn of fetch_update's loop
CellCas(t) ==
    /\ tpc[t] = "cas"
    /\ UNCHANGED <<tpos, gridVars, pureVars, mtVars>>
    /\ LET next == closure(top[t], tprev[t])
       IN  IF next = None
           THEN \* Err(prev): .unwrap() / .expect() panics, nothing is written
                /\ tpc' = [tpc EXCEPT ![t] = "panicked"]
                /\ tprev' = [tprev EXCEPT ![t] = 0]
                /\ UNCHANGED <<state, top>>
           ELSE IF state = tprev[t]
           THEN \* the exchange succeeds
                /\ state' = next
                /\ tpc' = [tpc EXCEPT ![t] = "idle"]
                /\ top' = [top EXCEPT ![t] = "none"]      \* the call returns:
                /\ tprev' = [tprev EXCEPT ![t] = 0]       \* its locals are gone
           ELSE \* the exchange fails: prev = the value found
                /\ tprev' = [tprev EXCEPT ![t] = state]
                /\ UNCHANGED <<state, tpc, top>>

NextCell ==
    \/ \E t \in Threads, op \in CellOps : CellBegin(t, op)
    \/ \E t \in Threads : CellCas(t)

SpecCell == InitCell /\ [][NextCell]_vars

\* C1: under any interleaving of spawn, kill, add_neighbor and
\* remove_neighbor on a fresh cell, the neighbor count stays in 0..8 and
\* bits 5-7 of the packed byte stay 0.
C1_CountInRange ==
    /\ state \in Byte
    /\ neighbors(state) \in 0..8
    /\ state \div 32 = 0

\* the count is at its maximum while one thread has been refused a ninth
\* increment and another is still inside an update
C1_Witness ==
    /\ neighbors(state) = 8
    /\ alive(state)
    /\ \E t \in Threads : tpc[t] = "panicked" /\ top[t] = "add_neighbor"
    /\ \E t \in Threads : tpc[t] = "cas"

(***************************************************************************)
(* AtomicGrid: H*W cells in row-major order, addressed on the torus.       *)
(***************************************************************************)
\* Rust's % on isize: the remainder of the truncating division, which takes
\* the sign of the dividend
Rem(a, b) == IF a >= 0 THEN a % b ELSE 0 - ((0 - a) % b)

\* mutant of wrapped: the truncating remainder alone
wrapped_Truncating(v, n) == Rem(v, n)

\* ((v % n + n) % n) as usize, the wrapping of one coordinate in get
wrapped(v, n) == Rem(Rem(v, n) + n, n)

\* AtomicGrid::get: the flat index of the cell get returns a reference to
get(x, y) ==
    LET wrapped_x == wrapped(x, W)
        wrapped_y == wrapped(y, H)
    IN  wrapped_y * W + wrapped_x

\* mutant of neighbor_coordinates: top_right repeats top
neighbor_coordinates_TopTwice(x, y) ==
    << <<x - 1, y - 1>>, <<x, y - 1>>, <<x, y - 1>>,
       <<x - 1, y>>,                   <<x + 1, y>>,
       <<x - 1, y + 1>>, <<x, y + 1>>, <<x + 1, y + 1>> >>

\* AtomicGrid::neighbor_coordinates: the fixed kernel of 8 offsets
neighbor_coordinates(x, y) ==
    << <<x - 1, y - 1>>, <<x, y - 1>>, <<x + 1, y - 1>>,
       <<x - 1, y>>,                   <<x + 1, y>>,
       <<x - 1, y + 1>>, <<x, y + 1>>, <<x + 1, y + 1>> >>

(***************************************************************************)
(* SpecGet: get on coordinates drawn from inside and outside the grid.     *)
(***************************************************************************)
Coords == (0 - (MaxW + MaxOff))..(MaxW + MaxOff)

InitGet ==
    /\ NoCell /\ NoMT
    /\ H \in 1..MaxH /\ W \in 1..MaxW /\ T = 1
    /\ grid = [i \in 0..(H * W - 1) |-> 0]          \* AtomicGrid::new
    /\ cache = [i \in 0..0 |-> 0]
    /\ failed = FALSE /\ lastop = [kind |-> "new"] /\ nops = 0 /\ seedn = 0
    /\ args \in [x : Coords, y : Coords, k : (0 - MaxOff)..MaxOff]
    /\ ret = <<>>

\* the caller reads the cell at (x, y) and the cell at (x + k*W, y + k*H)
GetCell ==
    /\ ret = <<>>
    /\ ret' = <<get(args.x, args.y),
                get(args.x + args.k * W, args.y + args.k * H)>>
    /\ UNCHANGED <<cellVars, gridVars, mtVars, args>>

NextGet == GetCell

SpecGet == InitGet /\ [][NextGet]_vars

\* C10: get(x, y) returns the cell at flat index
\* (y floor-mod H) * W + (x floor-mod W), an index inside [0, H*W) also for
\* negative x or y, and get(x + k*W, y + k*H) returns that same cell.
C10_GetWraps ==
    ret # <<>> =>
        /\ ret[1] = (args.y % H) * W + (args.x % W)
        /\ ret[1] \in 0..(H * W - 1)
        /\ ret[1] \in DOMAIN grid
        /\ ret[2] = ret[1]

\* get has been called with negative coordinates that are no multiple of the
\* grid's size, and compared with a non-zero shift
C10_Witness ==
    /\ ret # <<>>
    /\ args.x < 0 /\ args.y < 0 /\ args.k # 0
    /\ args.x % W # 0 /\ args.y % H # 0
    /\ H # W

(***************************************************************************)
(* The partition bounds of multi_threaded (example/src/main.rs), computed  *)
(* in the loop that spawns worker i, for i in 0..THREAD_COUNT.             *)
(***************************************************************************)
rows_per_thread == H \div T
cols_per_thread == W \div T

start_row(i) == (i \div T) * rows_per_thread
end_row(i) == start_row(i) + rows_per_thread

\* mutant of start_col: the stride is forgotten
start_col_NoStride(i) == i % T

start_col(i) == (i % T) * cols_per_thread
end_col(i) == start_col(i) + cols_per_thread

\* what worker i hands to update_grid_range:
\* top_left = (start_row, start_col), bottom_right = (end_row, end_col)
bounds(i) ==
    [top_left |-> <<start_row(i), start_col(i)>>,
     bottom_right |-> <<end_row(i), end_col(i)>>]

\* AtomicGenerator::update_grid_range: the (x, y) it hands to
\* update_cell_state, x in start_x..end_x and y in start_y..end_y
range_coords(b) ==
    {<<x, y>> : x \in b.top_left[1]..(b.bottom_right[1] - 1),
                y \in b.top_left[2]..(b.bottom_right[2] - 1)}

\* the cells update_cell_state reads for them: self.cache.get(x, y)
range_cells(b) == {get(c[1], c[2]) : c \in range_coords(b)}

(***************************************************************************)
(* SpecPart: the spawning loop, for every grid size and thread count.      *)
(***************************************************************************)
InitPart ==
    /\ NoCell /\ NoMT
    /\ H \in 1..MaxSide /\ W \in 1..MaxSide /\ T \in 1..MaxThreads
    /\ grid = [i \in 0..0 |-> 0]
    /\ cache = [i \in 0..0 |-> 0]
    /\ failed = FALSE /\ lastop = [kind |-> "new"] /\ nops = 0 /\ seedn = 0
    /\ args = <<>>
    /\ ret = <<>>             \* the bounds of the workers spawned so far

\* one turn of `for i in 0..THREAD_COUNT`: worker i gets its bounds
SpawnWorker ==
    /\ Len(ret) < T
    /\ ret' = Append(ret, bounds(Len(ret)))
    /\ UNCHANGED <<cellVars, gridVars, mtVars, args>>

NextPart == SpawnWorker

SpecPart == InitPart /\ [][NextPart]_vars

\* C6: once all T workers are spawned, the union of their rectangles is the
\* whole grid: every cell (x, y) with 0 <= x < W and 0 <= y < H has its row y
\* in start_row..end_row and its column x in start_col..end_col of some
\* worker.
C6_PartitionCovers ==
    Len(ret) = T =>
        \A x \in 0..(W - 1), y \in 0..(H - 1) :
            \E i \in 1..T : <<y, x>> \in range_coords(ret[i])

RECURSIVE for_neighbors(_, _, _, _)
for_neighbors(cells, nbrs, k, op) ==
    IF k > Len(nbrs)
    THEN [cells |-> cells, ok |-> TRUE]
    ELSE LET i == get(nbrs[k][1], nbrs[k][2])
             next == closure(op, cells[i])
         IN  IF next = None
             THEN [cells |-> cells, ok |-> FALSE]
             ELSE for_neighbors([cells EXCEPT ![i] = next], nbrs, k + 1, op)

\* AtomicGrid::spawn
spawn(cells, x, y) ==
    for_neighbors([cells EXCEPT ![get(x, y)] = spawn_f(@)],
                  neighbor_coordinates(x, y), 1, "add_neighbor")

\* mutant of kill: the last neighbor is not decremented
kill_SkipsLast(cells, x, y) ==
    for_neighbors([cells EXCEPT ![get(x, y)] = kill_f(@)],
                  SubSeq(neighbor_coordinates(x, y), 1, 7), 1,
                  "remove_neighbor")

\* AtomicGrid::kill
kill(cells, x, y) ==
    for_neighbors([cells EXCEPT ![get(x, y)] = kill_f(@)],
                  neighbor_coordinates(x, y), 1, "remove_neighbor")

\* mutant of update_rule: a dead cell is born with 2 neighbors
update_rule_Born2(cell) ==
    IF cell = 0 THEN "break"
    ELSE IF alive(cell)
    THEN IF neighbors(cell) < 2 \/ neighbors(cell) > 3 THEN "kill" ELSE "keep"
    ELSE IF neighbors(cell) = 2 THEN "spawn" ELSE "keep"

\* mutant of update_rule: an alive cell with 3 neighbors dies
update_rule_Dies3(cell) ==
    IF cell = 0 THEN "break"
    ELSE IF alive(cell)
    THEN IF neighbors(cell) < 2 \/ neighbors(cell) >= 3 THEN "kill" ELSE "keep"
    ELSE IF neighbors(cell) = 3 THEN "spawn" ELSE "keep"

\* AtomicGenerator::update_cell_state, the decision it takes from the cached
\* cell: ControlFlow::Break on a zero byte, else the rule
update_rule(cell) ==
    IF cell = 0 THEN "break"
    ELSE IF alive(cell)
    THEN IF neighbors(cell) < 2 \/ neighbors(cell) > 3 THEN "kill" ELSE "keep"
    ELSE IF neighbors(cell) = 3 THEN "spawn" ELSE "keep"

\* mutant of update_cell_state: the rule is read from the live cells
update_cell_state_ReadsLive(cells, cch, x, y) ==
    LET rule == update_rule(cells[get(x, y)])
    IN  CASE rule = "kill"  -> kill(cells, x, y)
          [] rule = "spawn" -> spawn(cells, x, y)
          [] OTHER          -> [cells |-> cells, ok |-> TRUE]

\* AtomicGenerator::update_cell_state: the rule, read from the cache cch and
\* applied to the live cells
update_cell_state(cells, cch, x, y) ==
    LET rule == update_rule(cch[get(x, y)])
    IN  CASE rule = "kill"  -> kill(cells, x, y)
          [] rule = "spawn" -> spawn(cells, x, y)
          [] OTHER          -> [cells |-> cells, ok |-> TRUE]

\* AtomicGenerator::_update_grid: `for x in 0..H { for y in 0..W { ... } }`,
\* from its n-th turn on (x = n / W, y = n % W)
RECURSIVE update_grid_from(_, _, _)
update_grid_from(r, cch, n) ==
    IF n >= H * W \/ ~r.ok
    THEN r
    ELSE update_grid_from(update_cell_state(r.cells, cch, n \div W, n % W),
                          cch, n + 1)

update_grid(cells, cch) ==
    update_grid_from([cells |-> cells, ok |-> TRUE], cch, 0)

\* UnsafeGenerator::u_generate: _unsafe_update_cache, then _update_grid
u_generate(cells) == update_grid(cells, cells)

(***************************************************************************)
(* The grid as a picture: alive sets and live-neighbor counts on the torus,*)
(* written without get and neighbor_coordinates.                           *)
(***************************************************************************)
Cells == {<<x, y>> : x \in 0..(W - 1), y \in 0..(H - 1)}
Idx(c) == c[2] * W + c[1]
Kernel == {<<dx, dy>> : dx \in {0 - 1, 0, 1}, dy \in {0 - 1, 0, 1}} \ {<<0, 0>>}
At(c, d) == <<(c[1] + d[1]) % W, (c[2] + d[2]) % H>>

AliveSet(cells) == {c \in Cells : cells[Idx(c)] % 2 = 1}
LiveNeighbors(S, c) == Cardinality({d \in Kernel : At(c, d) \in S})
Consistent(cells) ==
    \A c \in Cells :
        (cells[Idx(c)] \div 2) = LiveNeighbors(AliveSet(cells), c)

\* the reference rule of Conway
Conway(S) ==
    {c \in Cells : \/ c \in S /\ LiveNeighbors(S, c) \in {2, 3}
                   \/ c \notin S /\ LiveNeighbors(S, c) = 3}

(***************************************************************************)
(* SpecGen: a grid seeded with any pattern, then generations.              *)
(***************************************************************************)
InitGen ==
    /\ NoCell /\ NoPure /\ NoMT
    /\ H \in 1..MaxH /\ W \in 1..MaxW /\ T = 1
    /\ grid = [i \in 0..(H * W - 1) |-> 0]           \* AtomicGrid::new
    /\ cache = [i \in 0..(H * W - 1) |-> 0]          \* AtomicGenerator::new
    /\ failed = FALSE /\ lastop = [kind |-> "new"] /\ nops = 0
    /\ seedn = 0

\* create_atomic_grid_from_file: one record value of the seed file, row by
\* row (y = seedn / W, x = seedn % W); the value "1" spawns the cell
SeedCell(value) ==
    /\ ~failed /\ seedn < H * W /\ nops = 0
    /\ LET r == IF value = "1"
                THEN spawn(grid, seedn % W, seedn \div W)
                ELSE [cells |-> grid, ok |-> TRUE]
       IN  /\ grid' = r.cells
           /\ failed' = ~r.ok
    /\ seedn' = seedn + 1
    /\ lastop' = [kind |-> "seed"]
    /\ UNCHANGED <<cellVars, pureVars, mtVars, H, W, T, cache, nops>>

\* single_threaded: one turn of `for _ in 0..GENERATIONS { u_generate() }`
Generate ==
    /\ ~failed /\ seedn = H * W /\ nops < GENERATIONS
    /\ LET r == u_generate(grid)
       IN  /\ cache' = grid
           /\ grid' = r.cells
           /\ failed' = ~r.ok
    /\ lastop' = [kind |-> "generate"]
    /\ nops' = nops + 1
    /\ UNCHANGED <<cellVars, pureVars, mtVars, H, W, T, seedn>>

NextGen ==
    \/ \E value \in {"0", "1"} : SeedCell(value)
    \/ Generate

SpecGen == InitGen /\ [][NextGen]_vars

\* C2: a generation step on a grid whose neighbor counts are consistent with
\* its alive bits leaves as alive cells exactly those of the reference
\* Conway operator on the torus.
C2_GenerateIsConway ==
    [][(lastop'.kind = "generate" /\ Consistent(grid))
          => AliveSet(grid') = Conway(AliveSet(grid))]_vars

\* the same on square grids only, where _update_grid visits each cell once
C2_GenerateIsConwaySquare ==
    [][(lastop'.kind = "generate" /\ Consistent(grid) /\ H = W)
          => (AliveSet(grid') = Conway(AliveSet(grid)) /\ ~failed')]_vars

(***************************************************************************)
(* SpecGrid: spawn and kill called on a fresh grid, at any cell, in any    *)
(* order (the grid does not check that a spawned cell is dead or a killed  *)
(* cell alive).                                                            *)
(***************************************************************************)
InitGrid ==
    /\ NoCell /\ NoPure /\ NoMT
    /\ H \in 1..MaxH /\ W \in 1..MaxW /\ T = 1
    /\ grid = [i \in 0..(H * W - 1) |-> 0]           \* AtomicGrid::new
    /\ cache = [i \in 0..0 |-> 0]
    /\ failed = FALSE /\ lastop = [kind |-> "new"] /\ nops = 0
    /\ seedn = 0

\* grid.spawn(x, y)
GridSpawn(x, y) ==
    /\ ~failed /\ nops < MaxOps
    /\ LET r == spawn(grid, x, y)
       IN  /\ grid' = r.cells
           /\ failed' = ~r.ok
    /\ lastop' = [kind |-> "spawn", x |-> x, y |-> y]
    /\ nops' = nops + 1
    /\ UNCHANGED <<cellVars, pureVars, mtVars, H, W, T, cache, seedn>>

\* grid.kill(x, y)
GridKill(x, y) ==
    /\ ~failed /\ nops < MaxOps
    /\ LET r == kill(grid, x, y)
       IN  /\ grid' = r.cells
           /\ failed' = ~r.ok
    /\ lastop' = [kind |-> "kill", x |-> x, y |-> y]
    /\ nops' = nops + 1
    /\ UNCHANGED <<cellVars, pureVars, mtVars, H, W, T, cache, seedn>>

NextGrid ==
    \/ \E x \in 0..(W - 1), y \in 0..(H - 1) : GridSpawn(x, y)
    \/ \E x \in 0..(W - 1), y \in 0..(H - 1) : GridKill(x, y)

SpecGrid == InitGrid /\ [][NextGrid]_vars

\* the cells that are toroidal neighbors of cell c
NeighborCells(c) == {At(c, d) : d \in Kernel}

\* the step left the 8 toroidal neighbors of c0 with their count changed by
\* delta, every other count as it was, the
\* alive bit of c0 equal to bit and every other alive bit as it was
FrameOfCall(c0, delta, bit) ==
    \A c \in Cells :
          /\ (grid'[Idx(c)] \div 2) =
                (grid[Idx(c)] \div 2)
                    + (IF c \in NeighborCells(c0) THEN delta ELSE 0)
          /\ (grid'[Idx(c)] % 2 = 1) =
                (IF c = c0 THEN bit ELSE grid[Idx(c)] % 2 = 1)

\* a spawn of a dead cell, or a kill of an alive cell, that returned (no
\* contract failure in add_neighbor / remove_neighbor) has this frame
SpawnKillFrame ==
    /\ (/\ lastop'.kind = "spawn" /\ ~failed'
        /\ grid[Idx(<<lastop'.x, lastop'.y>>)] % 2 = 0)
          => FrameOfCall(<<lastop'.x, lastop'.y>>, 1, TRUE)
    /\ (/\ lastop'.kind = "kill" /\ ~failed'
        /\ grid[Idx(<<lastop'.x, lastop'.y>>)] % 2 = 1)
          => FrameOfCall(<<lastop'.x, lastop'.y>>, 0 - 1, FALSE)

Workers == 0..(T - 1)

\* mutant of BarrierSize: the main thread is not counted
BarrierSize_NoDriver == T

\* Barrier::new(THREAD_COUNT + 1)
BarrierSize == T + 1

\* update_grid_range((start_row, start_col), (end_row, end_col)) of worker i:
\* `for x in start_x..end_x { for y in start_y..end_y {..} }`, its n-th turn
range_len_y(i) == end_col(i) - start_col(i)
range_turns(i) == (end_row(i) - start_row(i)) * range_len_y(i)
range_x(i, n) == start_row(i) + (n \div range_len_y(i))
range_y(i, n) == start_col(i) + (n % range_len_y(i))

\* where worker i stands after n turns of update_grid_range
AfterTurn(i, n) == IF n >= range_turns(i) THEN "signal_done" ELSE "apply"

\* `for _ in 0..GENERATIONS`: the driver's position with n turns done
LoopTop(n) == IF n < GENERATIONS THEN "update_cache" ELSE "set_stop"

\* cache_cvar.notify_all()
WakeCache(wk) ==
    [i \in DOMAIN wk |->
        IF wk[i].pc = "cache_waiting"
        THEN [wk[i] EXCEPT !.pc = "lock_cache"] ELSE wk[i]]

\* the barrier lets a generation of waiting workers go
Release(wk) ==
    [i \in DOMAIN wk |->
        IF wk[i].pc = "at_barrier"
        THEN [wk[i] EXCEPT !.pc = "lock_cache"] ELSE wk[i]]

InitMT ==
    /\ NoCell /\ NoPure
    /\ H \in 1..MaxH /\ W \in 1..MaxW /\ H * W <= MaxCells
    /\ T \in 1..NThreads
    /\ grid = [i \in 0..(H * W - 1) |-> 0]           \* AtomicGrid::new
    /\ cache = [i \in 0..(H * W - 1) |-> 0]          \* AtomicGenerator::new
    /\ failed = FALSE /\ lastop = [kind |-> "new"] /\ nops = 0
    /\ seedn = 0
    /\ dpc = "randomize" /\ joined = 0 /\ snap = 0
    /\ worker = <<>>
    /\ cache_ready = FALSE /\ cache_lock = "free"
    /\ done_count = 0 /\ stop_signal = FALSE /\ barrier = 0
    /\ seed = <<>>

\* randomize_grid, one turn of `for x in 0..H { for y in 0..W {..} }`
\* (x = seedn / W, y = seedn % W): random() decides whether to spawn
Randomize(b) ==
    /\ dpc = "randomize" /\ seedn < H * W
    /\ LET r == IF b THEN spawn(grid, seedn \div W, seedn % W)
                ELSE [cells |-> grid, ok |-> TRUE]
       IN  /\ grid' = r.cells
           /\ failed' = ~r.ok
           /\ dpc' = IF r.ok THEN "randomize" ELSE "panicked"
    /\ seedn' = seedn + 1
    /\ UNCHANGED <<cellVars, pureVars, H, W, T, cache, lastop, nops, joined,
                   snap, worker, cache_ready, cache_lock, done_count,
                   stop_signal, barrier, seed>>

\* `for i in 0..THREAD_COUNT { handles.push(thread::spawn(..)) }`
SpawnThreads ==
    /\ dpc = "randomize" /\ seedn = H * W
    /\ worker' = [i \in Workers |->
                    [pc |-> "lock_cache", turn |-> 0, nbr |-> 0,
                     op |-> "none", gen |-> 0]]
    /\ seed' = grid
    /\ dpc' = LoopTop(0)
    /\ UNCHANGED <<cellVars, pureVars, gridVars, joined, snap, cache_ready,
                   cache_lock, done_count, stop_signal, barrier>>

\* mutant of unsafe_copy_from: the copy comes first, the assertion after it
unsafe_copy_from_CopyFirst(self_cells, other_cells) ==
    [cells |-> [i \in DOMAIN self_cells |->
                  IF i \in DOMAIN other_cells THEN other_cells[i]
                  ELSE self_cells[i]],
     ok |-> DOMAIN self_cells = DOMAIN other_cells]

\* AtomicGrid::unsafe_copy_from: the lengths are asserted equal, then
\* ptr::copy_nonoverlapping writes other's bytes over self's
unsafe_copy_from(self_cells, other_cells) ==
    IF DOMAIN self_cells # DOMAIN other_cells
    THEN [cells |-> self_cells, ok |-> FALSE]
    ELSE [cells |-> other_cells, ok |-> TRUE]

\* `unsafe { generator.u_update_cache(); }`: u_update_cache is
\* _unsafe_update_cache, which is self.cache.unsafe_copy_from(&self.grid)
DriverUpdateCache ==
    /\ dpc = "update_cache"
    /\ cache' = unsafe_copy_from(cache, grid).cells
    /\ lastop' = [kind |-> "unsafe_copy_from"]
    /\ snap' = snap + 1
    /\ dpc' = "reset_done"
    /\ UNCHANGED <<cellVars, pureVars, H, W, T, grid, failed, nops,
                   seedn, joined, worker, cache_ready, cache_lock,
                   done_count, stop_signal, barrier, seed>>

\* mutant of DriverResetDone: the counter keeps the last generation's count
DriverResetDone_NoReset ==
    /\ dpc = "reset_done"
    /\ dpc' = "signal_cache"
    /\ UNCHANGED <<cellVars, pureVars, gridVars, joined, snap, worker,
                   cache_ready, cache_lock, stop_signal, barrier, seed,
                   done_count>>

\* `*done_count = 0`
DriverResetDone ==
    /\ dpc = "reset_done"
    /\ done_count' = 0
    /\ dpc' = "signal_cache"
    /\ UNCHANGED <<cellVars, pureVars, gridVars, joined, snap, worker,
                   cache_ready, cache_lock, stop_signal, barrier, seed>>

\* `{ lock; *cache_ready = true; cache_cvar.notify_all(); }`
DriverSignalCache ==
    /\ dpc = "signal_cache" /\ cache_lock = "free"
    /\ cache_ready' = TRUE
    /\ worker' = WakeCache(worker)
    /\ dpc' = "wait_done"
    /\ UNCHANGED <<cellVars, pureVars, gridVars, joined, snap, cache_lock,
                   done_count, stop_signal, barrier, seed>>

\* mutant of DriverWaitDone: the driver goes on without the count
DriverWaitDone_NoWait ==
    /\ dpc = "wait_done"
    /\ dpc' = "display"
    /\ UNCHANGED <<cellVars, pureVars, gridVars, joined, snap, worker,
                   cache_ready, cache_lock, done_count, stop_signal, barrier,
                   seed>>

\* `while *done_count < THREAD_COUNT { done_cvar.wait(..) }`, one test
DriverWaitDone ==
    /\ dpc = "wait_done"
    /\ dpc' = IF done_count < T THEN "done_waiting" ELSE "display"
    /\ UNCHANGED <<cellVars, pureVars, gridVars, joined, snap, worker,
                   cache_ready, cache_lock, done_count, stop_signal, barrier,
                   seed>>

\* `if let Some(ref mut display) = display { display.update(); }`: the
\* display reads the alive bit of every cell of the live grid
DriverDisplay ==
    /\ dpc = "display"
    /\ dpc' = "reset_ready"
    /\ UNCHANGED <<cellVars, pureVars, gridVars, joined, snap, worker,
                   cache_ready, cache_lock, done_count, stop_signal, barrier,
                   seed>>

\* Condvar::wait may return without a notification
DriverSpurious ==
    /\ dpc = "done_waiting"
    /\ dpc' = "wait_done"
    /\ UNCHANGED <<cellVars, pureVars, gridVars, joined, snap, worker,
                   cache_ready, cache_lock, done_count, stop_signal, barrier,
                   seed>>

\* mutant of DriverResetReady: the flag is left set
DriverResetReady_NoReset ==
    /\ dpc = "reset_ready" /\ cache_lock = "free"
    /\ cache_lock' = "driver"
    /\ dpc' = "barrier"
    /\ UNCHANGED <<cellVars, pureVars, gridVars, joined, snap, worker,
                   done_count, stop_signal, barrier, seed, cache_ready>>

\* `let mut cache_ready = cache_updated.0.lock(); *cache_ready = false;`
\* the guard lives to the end of the loop body
DriverResetReady ==
    /\ dpc = "reset_ready" /\ cache_lock = "free"
    /\ cache_lock' = "driver"
    /\ cache_ready' = FALSE
    /\ dpc' = "barrier"
    /\ UNCHANGED <<cellVars, pureVars, gridVars, joined, snap, worker,
                   done_count, stop_signal, barrier, seed>>

\* the driver's barrier.wait()
DriverBarrier ==
    /\ dpc = "barrier"
    /\ IF barrier + 1 = BarrierSize
       THEN /\ barrier' = 0
            /\ worker' = Release(worker)
            /\ dpc' = "drop_guard"
       ELSE /\ barrier' = barrier + 1
            /\ dpc' = "at_barrier"
            /\ UNCHANGED worker
    /\ UNCHANGED <<cellVars, pureVars, gridVars, joined, snap, cache_ready,
                   cache_lock, done_count, stop_signal, seed>>

\* the end of the loop body: the guard of cache_updated is dropped
DriverDropGuard ==
    /\ dpc = "drop_guard"
    /\ cache_lock' = "free"
    /\ nops' = nops + 1
    /\ dpc' = LoopTop(nops + 1)
    /\ UNCHANGED <<cellVars, pureVars, H, W, T, grid, cache, failed, lastop,
                   seedn, joined, snap, worker, cache_ready, done_count,
                   stop_signal, barrier, seed>>

\* `*stop = true`
DriverSetStop ==
    /\ dpc = "set_stop"
    /\ stop_signal' = TRUE
    /\ dpc' = "final_wake"
    /\ UNCHANGED <<cellVars, pureVars, gridVars, joined, snap, worker,
                   cache_ready, cache_lock, done_count, barrier, seed>>

\* mutant of DriverFinalWake: the workers are not woken
DriverFinalWake_NoWake ==
    /\ dpc = "final_wake" /\ cache_lock = "free"
    /\ dpc' = "join"
    /\ UNCHANGED <<cellVars, pureVars, gridVars, joined, snap, cache_lock,
                   done_count, stop_signal, barrier, seed, cache_ready,
                   worker>>

\* the last `{ lock; *cache_ready = true; cache_cvar.notify_all(); }`
DriverFinalWake ==
    /\ dpc = "final_wake" /\ cache_lock = "free"
    /\ cache_ready' = TRUE
    /\ worker' = WakeCache(worker)
    /\ dpc' = "join"
    /\ UNCHANGED <<cellVars, pureVars, gridVars, joined, snap, cache_lock,
                   done_count, stop_signal, barrier, seed>>

\* `for thread in handles { thread.join().unwrap(); }`, one handle
DriverJoin ==
    /\ dpc = "join" /\ joined < T
    /\ worker[joined].pc \in {"exited", "panicked"}
    /\ IF worker[joined].pc = "panicked"
       THEN dpc' = "panicked" /\ UNCHANGED joined
       ELSE /\ joined' = joined + 1
            /\ dpc' = IF joined + 1 = T THEN "done" ELSE "join"
    /\ UNCHANGED <<cellVars, pureVars, gridVars, snap, worker, cache_ready,
                   cache_lock, done_count, stop_signal, barrier, seed>>

\* mutant of WorkerCheckCache: the worker goes on whatever the flag says
WorkerCheckCache_NoFlag(i) ==
    /\ i \in DOMAIN worker
    /\ worker[i].pc = "lock_cache" /\ cache_lock = "free"
    /\ worker' = [worker EXCEPT ![i].pc = "check_stop"]
    /\ UNCHANGED <<cellVars, pureVars, gridVars, dpc, joined, snap,
                   cache_ready, cache_lock, done_count, stop_signal, barrier,
                   seed>>

\* `lock; while !*cache_ready { cache_cvar.wait(..) }; drop`, one test of
\* the flag under the mutex
WorkerCheckCache(i) ==
    /\ i \in DOMAIN worker
    /\ worker[i].pc = "lock_cache" /\ cache_lock = "free"
    /\ worker' = [worker EXCEPT ![i].pc =
                    IF cache_ready THEN "check_stop" ELSE "cache_waiting"]
    /\ UNCHANGED <<cellVars, pureVars, gridVars, dpc, joined, snap,
                   cache_ready, cache_lock, done_count, stop_signal, barrier,
                   seed>>

\* Condvar::wait may return without a notification
WorkerSpurious(i) ==
    /\ i \in DOMAIN worker
    /\ worker[i].pc = "cache_waiting"
    /\ worker' = [worker EXCEPT ![i].pc = "lock_cache"]
    /\ UNCHANGED <<cellVars, pureVars, gridVars, dpc, joined, snap,
                   cache_ready, cache_lock, done_count, stop_signal, barrier,
                   seed>>

\* mutant of WorkerCheckStop: the flag is not looked at
WorkerCheckStop_NoCheck(i) ==
    /\ i \in DOMAIN worker
    /\ worker[i].pc = "check_stop"
    /\ worker' = [worker EXCEPT ![i] =
                    [pc |-> AfterTurn(i, 0), turn |-> 0, nbr |-> 0,
                     op |-> "none", gen |-> @.gen + 1]]
    /\ UNCHANGED <<cellVars, pureVars, gridVars, dpc, joined, snap,
                   cache_ready, cache_lock, done_count, stop_signal, barrier,
                   seed>>

\* `if *stop_signal.lock() { break; }`, else update_grid_range is entered
WorkerCheckStop(i) ==
    /\ i \in DOMAIN worker
    /\ worker[i].pc = "check_stop"
    /\ worker' = [worker EXCEPT ![i] =
                    IF stop_signal
                    THEN [@ EXCEPT !.pc = "exited"]
                    ELSE [pc |-> AfterTurn(i, 0), turn |-> 0, nbr |-> 0,
                          op |-> "none", gen |-> @.gen + 1]]
    /\ UNCHANGED <<cellVars, pureVars, gridVars, dpc, joined, snap,
                   cache_ready, cache_lock, done_count, stop_signal, barrier,
                   seed>>

\* mutant of WorkerUpdateCell: the kill or spawn is written to the cached
\* cell as well
WorkerUpdateCell_WritesCache(i) ==
    /\ i \in DOMAIN worker
    /\ worker[i].pc = "apply" /\ worker[i].nbr = 0
    /\ LET x == range_x(i, worker[i].turn)
           y == range_y(i, worker[i].turn)
           rule == update_rule(cache[get(x, y)])
       IN  IF rule \in {"kill", "spawn"}
           THEN /\ grid' = [grid EXCEPT ![get(x, y)] = closure(rule, @)]
                /\ cache' = [cache EXCEPT ![get(x, y)] = closure(rule, @)]
                /\ worker' = [worker EXCEPT
                                ![i].nbr = 1,
                                ![i].op = IF rule = "kill"
                                          THEN "remove_neighbor"
                                          ELSE "add_neighbor"]
           ELSE /\ worker' = [worker EXCEPT
                                ![i].turn = @ + 1,
                                ![i].pc = AfterTurn(i, worker[i].turn + 1)]
                /\ UNCHANGED <<grid, cache>>
    /\ UNCHANGED <<cellVars, pureVars, H, W, T, failed, lastop, nops,
                   seedn, dpc, joined, snap, cache_ready, cache_lock,
                   done_count, stop_signal, barrier, seed>>

\* mutant of WorkerUpdateCell: the neighbor loop is entered with the
\* center's cell.kill()/cell.spawn() not made
WorkerUpdateCell_NeighborsFirst(i) ==
    /\ i \in DOMAIN worker
    /\ worker[i].pc = "apply" /\ worker[i].nbr = 0
    /\ LET x == range_x(i, worker[i].turn)
           y == range_y(i, worker[i].turn)
           rule == update_rule(cache[get(x, y)])
       IN  IF rule \in {"kill", "spawn"}
           THEN /\ UNCHANGED grid
                /\ worker' = [worker EXCEPT
                                ![i].nbr = 1,
                                ![i].op = IF rule = "kill"
                                          THEN "remove_neighbor"
                                          ELSE "add_neighbor"]
           ELSE /\ worker' = [worker EXCEPT
                                ![i].turn = @ + 1,
                                ![i].pc = AfterTurn(i, worker[i].turn + 1)]
                /\ UNCHANGED grid
    /\ UNCHANGED <<cellVars, pureVars, H, W, T, cache, failed, lastop, nops,
                   seedn, dpc, joined, snap, cache_ready, cache_lock,
                   done_count, stop_signal, barrier, seed>>

\* update_cell_state(x, y) of the worker's current turn: the cached cell is
\* read, and a kill or spawn makes its first write, cell.kill()/cell.spawn()
WorkerUpdateCell(i) ==
    /\ i \in DOMAIN worker
    /\ worker[i].pc = "apply" /\ worker[i].nbr = 0
    /\ LET x == range_x(i, worker[i].turn)
           y == range_y(i, worker[i].turn)
           rule == update_rule(cache[get(x, y)])
       IN  IF rule \in {"kill", "spawn"}
           THEN /\ grid' = [grid EXCEPT ![get(x, y)] = closure(rule, @)]
                /\ worker' = [worker EXCEPT
                                ![i].nbr = 1,
                                ![i].op = IF rule = "kill"
                                          THEN "remove_neighbor"
                                          ELSE "add_neighbor"]
           ELSE /\ worker' = [worker EXCEPT
                                ![i].turn = @ + 1,
                                ![i].pc = AfterTurn(i, worker[i].turn + 1)]
                /\ UNCHANGED grid
    /\ UNCHANGED <<cellVars, pureVars, H, W, T, cache, failed, lastop, nops,
                   seedn, dpc, joined, snap, cache_ready, cache_lock,
                   done_count, stop_signal, barrier, seed>>

\* the next add_neighbor / remove_neighbor of the kill or spawn in progress;
\* a contract failure panics the worker thread
WorkerNeighbor(i) ==
    /\ i \in DOMAIN worker
    /\ worker[i].pc = "apply" /\ worker[i].nbr > 0
    /\ LET x == range_x(i, worker[i].turn)
           y == range_y(i, worker[i].turn)
           nb == neighbor_coordinates(x, y)[worker[i].nbr]
           j == get(nb[1], nb[2])
           next == closure(worker[i].op, grid[j])
       IN  IF next = None
           THEN /\ failed' = TRUE
                /\ worker' = [worker EXCEPT ![i].pc = "panicked"]
                /\ UNCHANGED grid
           ELSE /\ grid' = [grid EXCEPT ![j] = next]
                /\ worker' = [worker EXCEPT ![i] =
                                IF @.nbr = 8
                                THEN [@ EXCEPT !.nbr = 0, !.op = "none",
                                               !.turn = @ + 1,
                                               !.pc = AfterTurn(i, worker[i].turn + 1)]
                                ELSE [@ EXCEPT !.nbr = @ + 1]]
                /\ UNCHANGED failed
    /\ UNCHANGED <<cellVars, pureVars, H, W, T, cache, lastop, nops, seedn,
                   dpc, joined, snap, cache_ready, cache_lock, done_count,
                   stop_signal, barrier, seed>>

\* `*done_count += 1; if *done_count == THREAD_COUNT { notify_all() }`
WorkerSignalDone(i) ==
    /\ i \in DOMAIN worker
    /\ worker[i].pc = "signal_done"
    /\ done_count' = done_count + 1
    /\ dpc' = IF done_count + 1 = T /\ dpc = "done_waiting"
              THEN "wait_done" ELSE dpc
    /\ worker' = [worker EXCEPT ![i].pc = "barrier"]
    /\ UNCHANGED <<cellVars, pureVars, gridVars, joined, snap, cache_ready,
                   cache_lock, stop_signal, barrier, seed>>

\* the worker's barrier.wait()
WorkerBarrier(i) ==
    /\ i \in DOMAIN worker
    /\ worker[i].pc = "barrier"
    /\ IF barrier + 1 = BarrierSize
       THEN /\ barrier' = 0
            /\ worker' = [Release(worker) EXCEPT ![i].pc = "lock_cache"]
            /\ dpc' = IF dpc = "at_barrier" THEN "drop_guard" ELSE dpc
       ELSE /\ barrier' = barrier + 1
            /\ worker' = [worker EXCEPT ![i].pc = "at_barrier"]
            /\ UNCHANGED dpc
    /\ UNCHANGED <<cellVars, pureVars, gridVars, joined, snap, cache_ready,
                   cache_lock, done_count, stop_signal, seed>>

\* the statements of the main thread
DriverStep ==
    \/ \E b \in BOOLEAN : Randomize(b)
    \/ SpawnThreads
    \/ DriverUpdateCache \/ DriverResetDone \/ DriverSignalCache
    \/ DriverWaitDone \/ DriverSpurious \/ DriverDisplay \/ DriverResetReady
    \/ DriverBarrier \/ DriverDropGuard
    \/ DriverSetStop \/ DriverFinalWake \/ DriverJoin

\* the statements of the closure run by worker i
WorkerStep(i) ==
    \/ WorkerCheckCache(i) \/ WorkerSpurious(i) \/ WorkerCheckStop(i)
    \/ WorkerUpdateCell(i) \/ WorkerNeighbor(i)
    \/ WorkerSignalDone(i) \/ WorkerBarrier(i)

NextMT ==
    \/ \E b \in BOOLEAN : Randomize(b)
    \/ SpawnThreads
    \/ DriverUpdateCache
    \/ DriverResetDone
    \/ DriverSignalCache
    \/ DriverWaitDone
    \/ DriverSpurious
    \/ DriverDisplay
    \/ DriverResetReady
    \/ DriverBarrier
    \/ DriverDropGuard
    \/ DriverSetStop
    \/ DriverFinalWake
    \/ DriverJoin
    \/ \E i \in 0..(NThreads - 1) : WorkerCheckCache(i)
    \/ \E i \in 0..(NThreads - 1) : WorkerSpurious(i)
    \/ \E i \in 0..(NThreads - 1) : WorkerCheckStop(i)
    \/ \E i \in 0..(NThreads - 1) : WorkerUpdateCell(i)
    \/ \E i \in 0..(NThreads - 1) : WorkerNeighbor(i)
    \/ \E i \in 0..(NThreads - 1) : WorkerSignalDone(i)
    \/ \E i \in 0..(NThreads - 1) : WorkerBarrier(i)

SpecMT == InitMT /\ [][NextMT]_vars

\* fair scheduling: a thread that can take a step is not left behind forever
SpecMTFair ==
    /\ InitMT /\ [][NextMT]_vars
    /\ WF_vars(DriverStep)
    /\ \A i \in 0..(NThreads - 1) : WF_vars(WorkerStep(i))

\* single_threaded: `for _ in 0..GENERATIONS { generator.u_generate() }` on
\* the grid r, with n turns to go
RECURSIVE generations_from(_, _)
generations_from(r, n) ==
    IF n = 0 \/ ~r.ok
    THEN r
    ELSE generations_from(u_generate(r.cells), n - 1)

single_threaded(cells) ==
    generations_from([cells |-> cells, ok |-> TRUE], GENERATIONS)

\* C3: when the multi-worker run is over, the live grid is byte for byte
\* the grid the single-threaded loop leaves after the same number of
\* generations on the same initial grid, whatever T and the interleaving.
C3_SameAsSingleThreaded ==
    dpc = "done" =>
        /\ single_threaded(seed).ok
        /\ grid = single_threaded(seed).cells

\* C3 with one worker only, on a square grid
C3_SameAsSingleThreadedOneWorker ==
    (dpc = "done" /\ T = 1 /\ H = W) =>
        /\ single_threaded(seed).ok
        /\ grid = single_threaded(seed).cells

\* C3 on square grids only: the transposed loops play no part
C3_SameAsSingleThreadedSquare ==
    (dpc = "done" /\ H = W) =>
        /\ single_threaded(seed).ok
        /\ grid = single_threaded(seed).cells

\* some worker is inside update_grid_range
Applying(i) == i \in DOMAIN worker /\ worker[i].pc = "apply"

\* C4: the driver is never at its snapshot step (u_update_cache) while a
\* worker is inside update_grid_range.
C4_NoSnapshotDuringApply ==
    ~(dpc = "update_cache" /\ \E i \in 0..(NThreads - 1) : Applying(i))

\* the driver is about to take the snapshot of the second generation, after
\* two workers have applied the first and changed the grid
C4_Witness ==
    /\ dpc = "update_cache" /\ snap = 1 /\ T = 2
    /\ \A i \in DOMAIN worker : worker[i].gen = 1 /\ worker[i].turn > 0
    /\ grid # cache

\* C5: a worker inside update_grid_range for the n-th time works on the n-th
\* snapshot: the driver has finished that snapshot, has set cache_ready and
\* waits for the workers; no worker applies before the snapshot is taken or
\* applies twice against one snapshot.
C5_ApplyAfterSnapshot ==
    \A i \in 0..(NThreads - 1) :
        Applying(i) =>
            /\ worker[i].gen = snap
            /\ cache_ready
            /\ dpc \in {"wait_done", "done_waiting"}

\* a worker is in the middle of a kill or spawn of the second generation
\* while the other worker has not yet seen the flag
C5_Witness ==
    /\ T = 2
    /\ \E i, j \in DOMAIN worker :
          /\ worker[i].pc = "apply" /\ worker[i].gen = 2 /\ worker[i].nbr > 0
          /\ worker[j].pc = "lock_cache" /\ worker[j].gen = 1

\* the run is over: all generations driven, the stop flag set, every worker
\* out of its loop and joined
Terminated ==
    /\ dpc = "done" /\ nops = GENERATIONS /\ stop_signal /\ joined = T
    /\ \A i \in DOMAIN worker : worker[i].pc = "exited"

\* while the driver waits at the barrier with the mutex of cache_updated in
\* its hands, no worker is on its way to that mutex
NoWorkerBlocked ==
    (cache_lock = "driver" /\ dpc \in {"barrier", "at_barrier"}) =>
        \A i \in DOMAIN worker : worker[i].pc \in {"barrier", "at_barrier"}

\* C8: under fair scheduling the multi-worker run, once the workers are
\* spawned, terminates: the driver completes all GENERATIONS iterations,
\* sets the stop flag and wakes the workers, every worker exits its loop
\* and every join returns; and the driver holding the mutex at the barrier
\* never blocks a worker that has still to reach the barrier.
C8_Terminates ==
    /\ []NoWorkerBlocked
    /\ (DOMAIN worker # {}) ~> Terminated

\* C8 on square grids only
C8_TerminatesSquare ==
    /\ []NoWorkerBlocked
    /\ (DOMAIN worker # {} /\ H = W) ~> Terminated

\* once the flag is set every worker has entered update_grid_range
\* GENERATIONS times, none is inside it, and each is on its way from the
\* last barrier to the stop check, or out of its loop
StoppedWorkers ==
    stop_signal =>
        \A i \in DOMAIN worker :
            /\ ~Applying(i)
            /\ worker[i].gen = GENERATIONS
            /\ worker[i].pc \in {"lock_cache", "cache_waiting", "check_stop",
                                 "exited"}

\* update_grid_range is entered only by the stop check, when it has found
\* the flag unset
EntersAfterCheck ==
    \A i \in DOMAIN worker :
        (i \in DOMAIN worker' /\ worker'[i].gen # worker[i].gen) =>
            /\ worker[i].pc = "check_stop" /\ ~stop_signal
            /\ worker'[i].gen = worker[i].gen + 1

\* C19: once the driver has set the stop flag no worker runs
\* update_grid_range again: a worker enters it only from the stop check made
\* after the cache-ready wait, with the flag unset, and when the flag is set
\* every worker has entered it exactly GENERATIONS times and leaves its loop
\* without entering it again.
C19_NoApplyAfterStop ==
    /\ []StoppedWorkers
    /\ [][EntersAfterCheck]_vars

\* the flag is set; one worker has seen it and left its loop, another is at
\* the stop check, both after GENERATIONS applications
C19_Witness ==
    /\ stop_signal /\ T = 2 /\ GENERATIONS > 0
    /\ \E i, j \in DOMAIN worker :
          /\ worker[i].pc = "exited" /\ worker[i].gen = GENERATIONS
          /\ worker[j].pc = "check_stop" /\ worker[j].gen = GENERATIONS

\* the driver's join has met a worker that panicked: join() returns Err
\* and unwrap() panics in the driver
FailureObserved ==
    /\ dpc = "panicked"
    /\ joined \in DOMAIN worker /\ worker[joined].pc = "panicked"

\* C20: when a worker panics during its apply step, the driver eventually
\* reaches the join of the worker threads and observes the failure there;
\* the run does not hang.
C20_PanicSurfacesAtJoin ==
    (\E i \in DOMAIN worker : worker[i].pc = "panicked") ~> FailureObserved

\* C21: the driver's snapshot step in multi_threaded never takes the raw
\* unchecked copy unsafe_copy_from; it uses the cell-by-cell copy.
C21_SnapshotIsSafeCopy == lastop.kind # "unsafe_copy_from"

\* the driver is past the barrier of generation nops + 1
PastBarrier == dpc = "drop_guard"

\* the driver is between generations: nops of them are complete
BetweenGenerations ==
    /\ DOMAIN worker # {}
    /\ dpc \in {"update_cache", "set_stop", "final_wake", "join", "done"}

\* C25: every worker calls update_grid_range exactly once per generation:
\* when the driver passes the barrier of generation n each of the T workers
\* has applied its partition n times and is out of update_grid_range, and
\* it has still applied n times when the driver starts the next snapshot
\* or stops; at no time is a worker ahead of the snapshots taken or more
\* than one behind.
C25_OncePerGeneration ==
    /\ \A i \in DOMAIN worker : worker[i].gen \in {snap - 1, snap}
    /\ PastBarrier =>
          /\ DOMAIN worker = 0..(T - 1)
          /\ \A i \in DOMAIN worker :
                worker[i].gen = nops + 1 /\ ~Applying(i)
    /\ BetweenGenerations =>
          /\ DOMAIN worker = 0..(T - 1)
          /\ \A i \in DOMAIN worker :
                worker[i].gen = nops /\ ~Applying(i)

\* the driver has passed the barrier of the second generation and both
\* workers have applied twice
C25_Witness ==
    /\ PastBarrier /\ T = 2 /\ nops = 1
    /\ \A i \in DOMAIN worker : worker[i].gen = 2

\* a step that changes the cache is the driver's snapshot, taken while no
\* worker applies, and leaves in it the bytes of the live grid; every
\* other step, the workers' spawns and kills among them, leaves the cache
\* as it is
CacheFrame ==
    /\ cache' # cache =>
          /\ dpc = "update_cache" /\ snap' = snap + 1
          /\ cache' = grid /\ grid' = grid
          /\ \A i \in DOMAIN worker : ~Applying(i)
    /\ (\E i \in DOMAIN worker : Applying(i)) => cache' = cache

\* C28: the apply phase never writes the cache: from the end of a snapshot
\* to the start of the next one every cache cell keeps the byte the live
\* grid held at snapshot time, whatever the workers spawn and kill on the
\* live grid; during the first generation that is the seeded grid.
C28_ApplyLeavesCache ==
    /\ [][CacheFrame]_vars
    /\ [](snap = 1 => cache = seed)

\* a worker has changed the live grid in the first generation and the cache
\* still holds the seeded grid
C28_Witness ==
    /\ snap = 1 /\ grid # seed /\ cache = seed
    /\ \E i \in DOMAIN worker : Applying(i)

\* worker i begins a grid.spawn or grid.kill in this step, on a cell whose
\* alive bit in the live grid is the opposite of the one the call sets
CallsOnOpposite(i) ==
    (/\ i \in DOMAIN worker /\ worker[i].pc = "apply" /\ worker[i].nbr = 0
     /\ worker'[i].nbr = 1)
        => LET x == range_x(i, worker[i].turn)
               y == range_y(i, worker[i].turn)
           IN  /\ worker'[i].op = "add_neighbor" => ~alive(grid[get(x, y)])
               /\ worker'[i].op = "remove_neighbor" => alive(grid[get(x, y)])

\* C29: during any generation the generator calls grid.spawn only on a cell
\* that is dead in the live grid at that moment and grid.kill only on a
\* cell that is alive in the live grid at that moment, in every
\* interleaving of the workers' apply phase (one worker included).
C29_SpawnDeadKillAlive ==
    [][\A i \in 0..(NThreads - 1) : CallsOnOpposite(i)]_vars

\* C29 on square grids only
C29_SpawnDeadKillAliveSquare ==
    [][(H = W) => \A i \in 0..(NThreads - 1) : CallsOnOpposite(i)]_vars

\* worker i is inside a grid.spawn or grid.kill: cell.spawn()/cell.kill()
\* is made, some of the 8 neighbor updates are still to come
InCall(i) ==
    i \in DOMAIN worker /\ worker[i].pc = "apply" /\ worker[i].nbr > 0

\* the flat index of the center of the call worker i is inside
CenterOf(i) == get(range_x(i, worker[i].turn), range_y(i, worker[i].turn))

\* once the workers run, a step that changes a neighbor count is made by a
\* worker inside a call, whose center is already written; a step that
\* begins a call writes the center's alive bit and no count
CenterFirst ==
    /\ (/\ DOMAIN worker # {}
        /\ \E j \in DOMAIN grid : neighbors(grid'[j]) # neighbors(grid[j]))
          => \E i \in DOMAIN worker :
                /\ InCall(i) /\ worker'[i] # worker[i]
                /\ alive(grid[CenterOf(i)]) = (worker[i].op = "add_neighbor")
    /\ \A i \in DOMAIN worker :
          (worker[i].pc = "apply" /\ worker[i].nbr = 0 /\ worker'[i].nbr = 1)
             => /\ \A j \in DOMAIN grid : neighbors(grid'[j]) = neighbors(grid[j])
                /\ alive(grid'[CenterOf(i)]) = (worker'[i].op = "add_neighbor")

\* C31: within one grid.spawn(x, y) the center's alive bit is set before
\* any neighbor count is incremented, and within one grid.kill(x, y) it is
\* cleared before any count is decremented: while a call has neighbor
\* updates pending its center is already updated, and no count changes
\* with the center of its call still to be written.
C31_CenterBeforeNeighbors ==
    /\ [](\A i \in 0..(NThreads - 1) :
             InCall(i) =>
                 alive(grid[CenterOf(i)]) = (worker[i].op = "add_neighbor"))
    /\ [][CenterFirst]_vars

\* a worker is inside a spawn: the center is alive, 4 neighbors are
\* incremented, 4 are pending
C31_Witness ==
    \E i \in DOMAIN worker :
        /\ InCall(i) /\ worker[i].op = "add_neighbor" /\ worker[i].nbr = 5
        /\ alive(grid[CenterOf(i)])

\* C33: display.update() reads the live grid only between generations:
\* whenever the driver is inside display.update() no worker is inside
\* update_grid_range, and every worker has finished the generation shown.
C33_DisplayBetweenGenerations ==
    dpc = "display" =>
        /\ done_count = T
        /\ \A i \in DOMAIN worker :
              /\ ~Applying(i)
              /\ worker[i].pc \in {"barrier", "at_barrier"}
              /\ worker[i].gen = snap

\* the driver is inside display.update() after the second generation of
\* two workers, and the grid is no longer the seeded one
C33_Witness ==
    /\ dpc = "display" /\ T = 2 /\ snap = 2 /\ grid # seed
    /\ \A i \in DOMAIN worker : ~Applying(i)

\* a turn of randomize_grid's loop under the claim of C35: the cell it
\* spawns was dead until then, no add_neighbor is refused, and when the
\* last turn is over every count is the number of alive neighbors
RandomizeOnce ==
    (dpc = "randomize" /\ seedn' = seedn + 1) =>
        /\ ~failed'
        /\ grid' # grid => grid[get(seedn \div W, seedn % W)] % 2 = 0
        /\ seedn' = H * W => Consistent(grid')

\* C35: randomize_grid on a fresh grid of any size H x W spawns each cell
\* at most once, never meets a contract failure, and leaves the counts
\* consistent with the alive cells.
C35_RandomizeOnce == [][RandomizeOnce]_vars

\* the same on square grids
C35_RandomizeOnceSquare == [][H = W => RandomizeOnce]_vars

\* the generation threads_done counts for: the driver has taken the next
\* snapshot but not yet reset the counter while it is at its reset step
CountedGeneration == IF dpc = "reset_done" THEN snap - 1 ELSE snap

\* worker i has finished applying generation g: it entered it and is past
\* its `*done_count += 1`
FinishedApplying(i, g) ==
    /\ g > 0
    /\ worker[i].gen = g
    /\ worker[i].pc \notin {"apply", "signal_done", "panicked"}

\* C37: threads_done is always between 0 and T and equals the number of
\* workers that have finished applying the generation it counts for; when
\* the driver resets it, no worker has begun the generation about to start,
\* so the reset discards no increment of that generation.
C37_DoneCountExact ==
    /\ done_count \in 0..T
    /\ done_count = Cardinality({i \in DOMAIN worker :
                                    FinishedApplying(i, CountedGeneration)})
    /\ dpc = "reset_done" =>
          \A i \in DOMAIN worker : worker[i].gen = snap - 1

\* the driver is about to reset the counter for the second generation: it
\* holds the first generation's two increments and both workers wait for
\* the cache
C37_Witness ==
    /\ dpc = "reset_done" /\ snap = 2 /\ T = 2 /\ done_count = 2
    /\ grid # seed
    /\ \A i \in DOMAIN worker : worker[i].pc = "cache_waiting"

\* one worker of two has counted itself, the other is still applying
C37_WitnessOneDone ==
    /\ T = 2 /\ done_count = 1
    /\ \E i, j \in DOMAIN worker :
          worker[i].pc = "barrier" /\ worker[j].pc = "apply"

(***************************************************************************)
(* SpecCopy: cache.copy_from(&grid) and cache.unsafe_copy_from(&grid), run *)
(* by one thread on two grids of the same size holding any packed bytes.   *)
(* `grid` is the source (other), `cache` the destination (self).           *)
(* copy_from calls cell.compare_and_swap(other_cell); AtomicCell has no    *)
(* method of that name, its exchange is compare_and_exchange, which is     *)
(* what is modelled as the call.                                           *)
(***************************************************************************)
\* the orderings of AtomicCell::default(), which AtomicGrid::new gives to
\* every cell: AtomicCell::new(Ordering::Acquire, Ordering::Release)
fetch == "Acquire"
store == "Release"

\* AtomicU8::compare_exchange(current, new, success, failure) on a cell that
\* holds `held`: the failure ordering may be SeqCst, Acquire or Relaxed only,
\* Release and AcqRel panic; else the byte becomes new if it is current
compare_exchange(held, current, new, success, failure) ==
    IF failure \in {"Release", "AcqRel"}
    THEN None
    ELSE IF held = current THEN new ELSE held

\* AtomicCell::compare_and_exchange(&self, other):
\* compare_exchange(self.state.load(self.fetch), other.fetch(),
\*                  self.fetch, self.store)
compare_and_exchange(self_state, other_state) ==
    compare_exchange(self_state, self_state, other_state, fetch, store)

\* AtomicGrid::copy_from: `for i in 0..self.cells.len()`, from index i on
RECURSIVE copy_from_at(_, _, _)
copy_from_at(self_cells, other_cells, i) ==
    IF i >= H * W
    THEN [cells |-> self_cells, ok |-> TRUE]
    ELSE LET next == compare_and_exchange(self_cells[i], other_cells[i])
         IN  IF next = None
             THEN [cells |-> self_cells, ok |-> FALSE]
             ELSE copy_from_at([self_cells EXCEPT ![i] = next],
                               other_cells, i + 1)

copy_from(self_cells, other_cells) == copy_from_at(self_cells, other_cells, 0)

\* packed bytes the two grids hold before the copy: dead and alive cells
\* with counts 0, 3 and 8 (cell.store(0b0001_0001) in the tests)
CopyBytes == {0, 1, 6, 7, 17}

InitCopy ==
    /\ NoCell /\ NoPure /\ NoMT
    /\ H \in 1..MaxH /\ W \in 1..MaxW /\ H * W <= MaxCopy /\ T = 1
    /\ grid \in [0..(H * W - 1) -> CopyBytes]
    /\ cache \in [0..(H * W - 1) -> CopyBytes]
    /\ failed = FALSE /\ lastop = [kind |-> "new"] /\ nops = 0
    /\ seedn = 0

\* cache.copy_from(&grid)
CopyFrom ==
    /\ ~failed /\ nops < MaxOps
    /\ LET r == copy_from(cache, grid)
       IN  /\ cache' = r.cells
           /\ failed' = ~r.ok
    /\ lastop' = [kind |-> "copy_from"]
    /\ nops' = nops + 1
    /\ UNCHANGED <<cellVars, pureVars, mtVars, H, W, T, grid, seedn>>

\* cache.unsafe_copy_from(&grid)
UnsafeCopyFrom ==
    /\ ~failed /\ nops < MaxOps
    /\ LET r == unsafe_copy_from(cache, grid)
       IN  /\ cache' = r.cells
           /\ failed' = ~r.ok
    /\ lastop' = [kind |-> "unsafe_copy_from"]
    /\ nops' = nops + 1
    /\ UNCHANGED <<cellVars, pureVars, mtVars, H, W, T, grid, seedn>>

\* cell.store(value) on a cell of the source grid (the tests' setup)
StoreCell(i, value) ==
    /\ ~failed /\ nops < MaxOps
    /\ i \in DOMAIN grid
    /\ grid' = [grid EXCEPT ![i] = value]
    /\ lastop' = [kind |-> "store"]
    /\ nops' = nops + 1
    /\ UNCHANGED <<cellVars, pureVars, mtVars, H, W, T, cache, failed, seedn>>

NextCopy ==
    \/ CopyFrom
    \/ UnsafeCopyFrom
    \/ \E i \in 0..(MaxCopy - 1), value \in CopyBytes : StoreCell(i, value)

SpecCopy == InitCopy /\ [][NextCopy]_vars

\* C11: after dest.copy_from(src) and after dest.unsafe_copy_from(src), run
\* with no other thread at work, the destination holds the source's packed
\* byte at every index and the source is unchanged.
C11_CopyEqualsSource ==
    [][lastop'.kind \in {"copy_from", "unsafe_copy_from"} =>
          (~failed' /\ cache' = grid /\ grid' = grid)]_vars

\* C11 for unsafe_copy_from alone
C11_UnsafeCopyEqualsSource ==
    [][lastop'.kind = "unsafe_copy_from" =>
          (~failed' /\ cache' = grid /\ grid' = grid)]_vars

\* thread t's call ends in this step: it returns or it panics
CallEnds(t) == tpc[t] = "cas" /\ tpc'[t] # "cas"

\* C12: add_neighbor on a cell whose count is 8, and remove_neighbor on a
\* cell whose count is 0, end in a contract failure and leave the packed
\* byte exactly as it was; in every other case the call returns and the
\* count has changed by exactly 1.  The count is that of the byte
\* fetch_update observed.
C12_RejectsAtLimits ==
    [][\A t \in Threads :
          CallEnds(t) =>
              /\ top[t] = "add_neighbor" =>
                    IF neighbors(tprev[t]) = 8
                    THEN tpc'[t] = "panicked" /\ state' = state
                    ELSE /\ tpc'[t] = "idle"
                         /\ neighbors(state') = neighbors(state) + 1
              /\ top[t] = "remove_neighbor" =>
                    IF neighbors(tprev[t]) = 0
                    THEN tpc'[t] = "panicked" /\ state' = state
                    ELSE /\ tpc'[t] = "idle"
                         /\ neighbors(state') = neighbors(state) - 1]_vars

\* one thread was refused a decrement at 0; later another was refused an
\* increment at 8, and the byte still holds that count
C12_Witness ==
    /\ neighbors(state) = 8
    /\ \E t \in Threads : tpc[t] = "panicked" /\ top[t] = "remove_neighbor"
    /\ \E t \in Threads : tpc[t] = "panicked" /\ top[t] = "add_neighbor"

\* C13: from a grid seeded by spawning distinct dead cells, no add_neighbor
\* ever finds a count of 8 and no remove_neighbor a count of 0 during the
\* generations: the contract failure is unreachable.
C13_NoContractFailure == ~failed

\* C13 on square grids only (checked for the single-threaded loop under
\* SpecGen and for the workers under SpecMT)
C13_NoContractFailureSquare == (H = W) => ~failed

(***************************************************************************)
(* SpecShape: the fixed scenarios of the tests.  A shape is stamped on an  *)
(* empty square torus with spawn_shape, then generations are run           *)
(* (u_generate, as single_threaded does).                                  *)
(***************************************************************************)
\* display.rs: GLIDER_OFFSETS
GLIDER_OFFSETS == << <<2, 0>>, <<2, 1>>, <<2, 2>>, <<1, 2>>, <<0, 1>> >>

\* atomic_grid.rs (tests): BLOCK_SHAPE_OFFSETS
BLOCK_SHAPE_OFFSETS == << <<0, 0>>, <<1, 0>>, <<0, 1>>, <<1, 1>> >>

Shapes == {"glider", "block"}
offsets_of(shape) ==
    IF shape = "glider" THEN GLIDER_OFFSETS ELSE BLOCK_SHAPE_OFFSETS

InitShape ==
    /\ NoCell /\ NoMT
    /\ H \in 4..MaxShapeSide /\ W = H /\ T = 1
    /\ grid = [i \in 0..(H * W - 1) |-> 0]           \* AtomicGrid::new
    /\ cache = [i \in 0..(H * W - 1) |-> 0]          \* AtomicGenerator::new
    /\ failed = FALSE /\ lastop = [kind |-> "new"] /\ nops = 0
    /\ seedn = 0
    /\ args \in {[shape |-> sh, start |-> <<x, y>>] :
                    sh \in Shapes, x \in 0..(MaxShapeSide - 1),
                    y \in 0..(MaxShapeSide - 1)}
    /\ args.start[1] < W /\ args.start[2] < H
    /\ ret = <<>>

\* spawn_shape(start, offsets), one turn of `for (dx, dy) in offsets`:
\* self.spawn(start.0 + dx, start.1 + dy)
SpawnShapeStep ==
    /\ ~failed /\ seedn < Len(offsets_of(args.shape))
    /\ LET d == offsets_of(args.shape)[seedn + 1]
           r == spawn(grid, args.start[1] + d[1], args.start[2] + d[2])
       IN  /\ grid' = r.cells
           /\ failed' = ~r.ok
    /\ seedn' = seedn + 1
    /\ lastop' = [kind |-> "spawn_shape"]
    /\ UNCHANGED <<cellVars, pureVars, mtVars, H, W, T, cache, nops>>

\* one generation on the stamped grid: generator.u_generate()
GenerateShape ==
    /\ ~failed /\ seedn = Len(offsets_of(args.shape))
    /\ nops < MaxShapeGens
    /\ LET r == u_generate(grid)
       IN  /\ cache' = grid
           /\ grid' = r.cells
           /\ failed' = ~r.ok
    /\ lastop' = [kind |-> "generate"]
    /\ nops' = nops + 1
    /\ UNCHANGED <<cellVars, pureVars, mtVars, H, W, T, seedn>>

NextShape == SpawnShapeStep \/ GenerateShape

SpecShape == InitShape /\ [][NextShape]_vars

\* the cells of a shape stamped at start and moved by (dx, dy), on the torus
ShapeCells(shape, start, dx, dy) ==
    {<<(start[1] + offsets_of(shape)[k][1] + dx) % W,
       (start[2] + offsets_of(shape)[k][2] + dy) % H>> :
        k \in 1..Len(offsets_of(shape))}

\* C15: the glider stamped on an empty torus (of side 5 or more, standing
\* for the 100x100 torus of the scenario) is, after exactly 4 generations,
\* the same pattern translated by (1, 1), with every neighbor count
\* consistent.
C15_GliderMoves ==
    (args.shape = "glider" /\ nops = 4 /\ H >= 5) =>
        /\ ~failed
        /\ AliveSet(grid) = ShapeCells("glider", args.start, 1, 1)
        /\ Consistent(grid)

\* C15 whatever the side: on the 4x4 torus the glider meets itself
C15_GliderMovesAnySide ==
    (args.shape = "glider" /\ nops = 4) =>
        /\ ~failed
        /\ AliveSet(grid) = ShapeCells("glider", args.start, 1, 1)
        /\ Consistent(grid)

\* the glider stamped at the origin has run its 4 generations
C15_Witness ==
    /\ args.shape = "glider" /\ args.start = <<0, 0>> /\ H >= 5
    /\ nops = 4 /\ lastop.kind = "generate"
    /\ Cardinality(AliveSet(grid)) = 5

\* C16: on the 4x4 torus seeded with the 2x2 block, after one generation the
\* four block cells are still alive with neighbor count 3 and every cell
\* outside the block is still dead with a neighbor count equal to its number
\* of live toroidal neighbors.
C16_BlockIsStill ==
    (args.shape = "block" /\ H = 4 /\ nops = 1) =>
        /\ ~failed
        /\ \A c \in Cells :
              IF c \in ShapeCells("block", args.start, 0, 0)
              THEN grid[Idx(c)] = 7
              ELSE /\ grid[Idx(c)] % 2 = 0
                   /\ (grid[Idx(c)] \div 2) =
                          LiveNeighbors(ShapeCells("block", args.start, 0, 0), c)

\* the block at (0,0)-(1,1) of the 4x4 torus has gone through a generation
C16_Witness ==
    /\ args.shape = "block" /\ args.start = <<0, 0>> /\ H = 4 /\ W = 4
    /\ nops = 1 /\ lastop.kind = "generate"
    /\ grid[0] = 7 /\ grid[2] = 4 /\ grid[10] = 2

\* C14: in an apply phase a cell whose cached packed byte is 0 is never the
\* center of a spawn or kill: its alive bit is unchanged by the phase, and
\* its byte changes only if one of its neighbors was spawned in the phase.
C14_ZeroCellNotCenter ==
    [][lastop'.kind = "generate" =>
          \A c \in Cells :
              grid[Idx(c)] = 0 =>
                  /\ grid'[Idx(c)] % 2 = 0
                  /\ grid'[Idx(c)] # 0 =>
                        \E d \in Kernel :
                            At(c, d) \in AliveSet(grid') \ AliveSet(grid)]_vars

\* a generation has left a cell whose cached byte is 0 dead with a count
\* raised by a birth next to it, and another such cell untouched
C14_Witness ==
    /\ lastop.kind = "generate" /\ ~failed
    /\ \E c \in Cells : cache[Idx(c)] = 0 /\ grid[Idx(c)] \div 2 > 0
    /\ \E c \in Cells : cache[Idx(c)] = 0 /\ grid[Idx(c)] = 0

(***************************************************************************)
(* SpecThreads: test_threading.  Threads stamp blocks on one shared 4x4    *)
(* grid with spawn_shape; every cell operation is a fetch_update: a load,  *)
(* then compare-and-exchange turns until one succeeds.  The four stamps of *)
(* the test are dealt to the NThreads threads in turn.                     *)
(***************************************************************************)
\* the starts of the four spawn_shape calls of test_threading (t1..t4)
ThreadingStarts == << <<0, 0>>, <<2, 2>>, <<2, 0>>, <<0, 2>> >>

\* the starts thread t stamps, in order
jobs_of(t) ==
    [n \in 1..Cardinality({k \in 1..Len(ThreadingStarts) :
                              (k - 1) % NThreads = t - 1}) |->
        ThreadingStarts[(n - 1) * NThreads + t]]

\* the cell spawn(x, y) is called on at position pos of thread t
spawn_xy(t, pos) ==
    <<jobs_of(t)[pos.job][1] + BLOCK_SHAPE_OFFSETS[pos.cell][1],
      jobs_of(t)[pos.job][2] + BLOCK_SHAPE_OFFSETS[pos.cell][2]>>

\* the flat index of the cell the operation at pos works on: the spawned
\* cell itself (nbr = 0), then its 8 neighbors in turn
op_index(t, pos) ==
    LET c == spawn_xy(t, pos)
    IN  IF pos.nbr = 0
        THEN get(c[1], c[2])
        ELSE LET nb == neighbor_coordinates(c[1], c[2])[pos.nbr]
             IN  get(nb[1], nb[2])

op_name(pos) == IF pos.nbr = 0 THEN "spawn" ELSE "add_neighbor"

\* the position after the operation at pos
next_pos(pos) ==
    IF pos.nbr < 8 THEN [pos EXCEPT !.nbr = @ + 1]
    ELSE IF pos.cell < Len(BLOCK_SHAPE_OFFSETS)
    THEN [pos EXCEPT !.nbr = 0, !.cell = @ + 1]
    ELSE [job |-> pos.job + 1, cell |-> 1, nbr |-> 0]

InitThreads ==
    /\ NoPure /\ NoMT
    /\ state = 0
    /\ tpc = [t \in Threads |-> "idle"]
    /\ top = [t \in Threads |-> "none"]
    /\ tprev = [t \in Threads |-> 0]
    /\ tpos = [t \in Threads |-> [job |-> 1, cell |-> 1, nbr |-> 0]]
    /\ H = 4 /\ W = 4 /\ T = 1                        \* AtomicGrid::<4, 4>
    /\ grid = [i \in 0..(H * W - 1) |-> 0]
    /\ cache = [i \in 0..0 |-> 0]
    /\ failed = FALSE /\ lastop = [kind |-> "new"] /\ nops = 0
    /\ seedn = 0

\* fetch_update's first load, for the next operation of thread t
GridOpLoad(t) ==
    /\ tpc[t] = "idle" /\ tpos[t].job <= Len(jobs_of(t))
    /\ tprev' = [tprev EXCEPT ![t] = grid[op_index(t, tpos[t])]]
    /\ tpc' = [tpc EXCEPT ![t] = "cas"]
    /\ UNCHANGED <<state, top, tpos, gridVars, pureVars, mtVars>>

\* mutant of GridOpCas: the new byte is stored without the comparison
GridOpCas_NoCompare(t) ==
    /\ tpc[t] = "cas"
    /\ grid' = [grid EXCEPT ![op_index(t, tpos[t])] =
                    closure(op_name(tpos[t]), tprev[t])]
    /\ tpos' = [tpos EXCEPT ![t] = next_pos(@)]
    /\ tpc' = [tpc EXCEPT ![t] = "idle"]
    /\ tprev' = [tprev EXCEPT ![t] = 0]
    /\ UNCHANGED <<state, top, pureVars, mtVars, H, W, T, cache, failed,
                   lastop, nops, seedn>>

\* one turn of fetch_update's loop on the grid cell
GridOpCas(t) ==
    /\ tpc[t] = "cas"
    /\ LET i == op_index(t, tpos[t])
           next == closure(op_name(tpos[t]), tprev[t])
       IN  IF next = None
           THEN /\ tpc' = [tpc EXCEPT ![t] = "panicked"]
                /\ tprev' = [tprev EXCEPT ![t] = 0]
                /\ failed' = TRUE
                /\ UNCHANGED <<grid, tpos>>
           ELSE IF grid[i] = tprev[t]
           THEN /\ grid' = [grid EXCEPT ![i] = next]
                /\ tpos' = [tpos EXCEPT ![t] = next_pos(@)]
                /\ tpc' = [tpc EXCEPT ![t] = "idle"]
                /\ tprev' = [tprev EXCEPT ![t] = 0]
                /\ UNCHANGED failed
           ELSE /\ tprev' = [tprev EXCEPT ![t] = grid[i]]
                /\ UNCHANGED <<grid, tpos, tpc, failed>>
    /\ UNCHANGED <<state, top, pureVars, mtVars, H, W, T, cache, lastop,
                   nops, seedn>>

NextThreads ==
    \/ \E t \in Threads : GridOpLoad(t)
    \/ \E t \in Threads : GridOpCas(t)

SpecThreads == InitThreads /\ [][NextThreads]_vars

\* the same stamps made by one thread, one after the other: the starts
\* order[k], order[k + 1], ... stamped on cells
RECURSIVE stamp_from(_, _, _, _)
stamp_from(r, order, k, c) ==
    IF k > Len(order) \/ ~r.ok THEN r
    ELSE IF c > Len(BLOCK_SHAPE_OFFSETS) THEN stamp_from(r, order, k + 1, 1)
    ELSE stamp_from(spawn(r.cells,
                          order[k][1] + BLOCK_SHAPE_OFFSETS[c][1],
                          order[k][2] + BLOCK_SHAPE_OFFSETS[c][2]),
                    order, k, c + 1)

Sequentially(order) ==
    stamp_from([cells |-> [i \in 0..(H * W - 1) |-> 0], ok |-> TRUE],
               order, 1, 1)

ThreadsDone == \A t \in Threads : tpos[t].job > Len(jobs_of(t))

\* the number of operations a thread at position pos has completed
pos_rank(pos) == ((pos.job - 1) * Len(BLOCK_SHAPE_OFFSETS) + (pos.cell - 1)) * 9
                 + pos.nbr

\* what the completed operations of thread t add to the bytes of the grid,
\* whatever their order: 1 for each spawn, 2 for each add_neighbor
sum_of_completed(t) ==
    LET n == pos_rank(tpos[t])
        spawns == (n + 8) \div 9
    IN  spawns + 2 * (n - spawns)

RECURSIVE sum_of_bytes(_, _)
sum_of_bytes(cells, i) ==
    IF i > H * W - 1 THEN 0 ELSE cells[i] + sum_of_bytes(cells, i + 1)

RECURSIVE sum_of_threads(_)
sum_of_threads(t) ==
    IF t > NThreads THEN 0 ELSE sum_of_completed(t) + sum_of_threads(t + 1)

\* C17: when threads concurrently spawn distinct dead cells with
\* overlapping neighborhoods, no operation is lost or fails: at every
\* moment the bytes of the grid add up to what the completed operations
\* put there, and at the end the grid is the one the same spawns leave when
\* made sequentially, in the order of the test or in the reverse order:
\* the four blocks leave every cell of the 4x4 torus alive with count 8.
C17_ConcurrentSpawnsAsSequential ==
    /\ ~failed
    /\ sum_of_bytes(grid, 0) = sum_of_threads(1)
    /\ ThreadsDone =>
          /\ grid = Sequentially(ThreadingStarts).cells
          /\ grid = Sequentially([k \in 1..4 |-> ThreadingStarts[5 - k]]).cells
          /\ \A i \in DOMAIN grid : grid[i] = 17

\* all threads are through, and on the way one of them lost an exchange to
\* another and had to retry
C17_Witness ==
    /\ ThreadsDone
    /\ \A i \in DOMAIN grid : grid[i] = 17
(***************************************************************************)
(* SpecCellOp: one operation of AtomicCell on a cell holding a given byte, *)
(* as test_neighbors and test_spawn_kill make it: no other thread touches  *)
(* the cell, so fetch_update's first exchange succeeds.                    *)
(***************************************************************************)
\* the bytes a cell can hold: either alive state, a count of 0..8
CellBytes == {alv + 2 * cnt : alv \in 0..1, cnt \in 0..8}

InitCellOp ==
    /\ NoCell /\ NoGrid /\ NoMT
    /\ args \in [old : CellBytes, op : CellOps]
    /\ ret = <<>>

\* the operation runs: ret is the byte the cell holds afterwards and
\* whether the call panicked (closure returned None: nothing is written)
CellOp ==
    /\ ret = <<>>
    /\ LET next == closure(args.op, args.old)
       IN  ret' = IF next = None
                  THEN [state |-> args.old, panicked |-> TRUE]
                  ELSE [state |-> next, panicked |-> FALSE]
    /\ UNCHANGED <<cellVars, gridVars, mtVars, args>>

NextCellOp == CellOp

SpecCellOp == InitCellOp /\ [][NextCellOp]_vars

\* C18: for every count 0..8 and either alive state, spawn and kill change
\* at most bit 0 of the byte, so the count is as it was; add_neighbor and
\* remove_neighbor leave the alive bit and bits 5-7 as they were, so they
\* change only the count bits.
C18_FrameOfCellOps ==
    ret # <<>> =>
        /\ args.op \in {"spawn", "kill"} =>
              /\ ret.state \div 2 = args.old \div 2
              /\ neighbors(ret.state) = neighbors(args.old)
              /\ alive(ret.state) = (args.op = "spawn")
        /\ args.op \in {"add_neighbor", "remove_neighbor"} =>
              /\ alive(ret.state) = alive(args.old)
              /\ ret.state \div 32 = args.old \div 32

\* kill has run on an alive cell with 8 neighbors, and the cell is dead
\* with 8 neighbors
C18_Witness ==
    /\ ret # <<>> /\ args.op = "kill" /\ args.old = 17
    /\ ret.state = 16

\* add_neighbor has run on an alive cell with 3 neighbors
C18_WitnessAdd ==
    /\ ret # <<>> /\ args.op = "add_neighbor" /\ args.old = 7
    /\ ret.state = 9
(***************************************************************************)
(* SpecNew: AtomicCell::new(fetch, store) with every pair of memory        *)
(* orderings, and the cell it returns put to use by one thread.            *)
(***************************************************************************)
\* std::sync::atomic::Ordering
Orderings == {"Relaxed", "Release", "Acquire", "AcqRel", "SeqCst"}

\* mutant of new: the last assertion is missing
new_NoStoreCheck(f, st) ==
    IF f = "AcqRel" \/ st = "AcqRel" \/ f = "Release"
    THEN [panicked |-> TRUE, state |-> 0, fetch |-> f, store |-> st]
    ELSE [panicked |-> FALSE, state |-> 0, fetch |-> f, store |-> st]

\* AtomicCell::new: four assert_ne!, then AtomicU8::new(0); panicked says
\* that an assertion failed and no cell was returned
new(f, st) ==
    IF f = "AcqRel" \/ st = "AcqRel" \/ f = "Release" \/ st = "Acquire"
    THEN [panicked |-> TRUE, state |-> 0, fetch |-> f, store |-> st]
    ELSE [panicked |-> FALSE, state |-> 0, fetch |-> f, store |-> st]

\* AtomicU8::load(order) panics on Release and AcqRel, and so does
\* compare_exchange_weak(.., success, failure) on such a failure ordering
load_order_ok(order) == order \notin {"Release", "AcqRel"}

InitNew ==
    /\ NoCell /\ NoGrid /\ NoMT
    /\ args \in [fetch : Orderings, store : Orderings]
    /\ ret = <<>>

\* let cell = AtomicCell::new(fetch, store)
NewCell ==
    /\ ret = <<>>
    /\ LET c == new(args.fetch, args.store)
       IN  ret' = IF c.panicked
                  THEN [constructed |-> FALSE, fresh |-> TRUE,
                        panicked |-> TRUE, state |-> 0]
                  ELSE [constructed |-> TRUE, fresh |-> TRUE,
                        panicked |-> FALSE, state |-> c.state]
    /\ UNCHANGED <<cellVars, gridVars, mtVars, args>>

\* cell.spawn() / kill() / add_neighbor() / remove_neighbor() on the new
\* cell: fetch_update(self.store, self.fetch, closure)
UseCell(op) ==
    /\ ret # <<>> /\ ret.constructed /\ ~ret.panicked
    /\ LET next == IF load_order_ok(args.fetch)
                   THEN closure(op, ret.state)
                   ELSE None
       IN  ret' = IF next = None
                  THEN [ret EXCEPT !.fresh = FALSE, !.panicked = TRUE]
                  ELSE [ret EXCEPT !.fresh = FALSE, !.state = next]
    /\ UNCHANGED <<cellVars, gridVars, mtVars, args>>

NextNew ==
    \/ NewCell
    \/ \E op \in CellOps : UseCell(op)

SpecNew == InitNew /\ [][NextNew]_vars

\* C22: AtomicCell::new(fetch, store) fails exactly when fetch is Release
\* or AcqRel, or store is Acquire or AcqRel; for every other pair it
\* returns a dead cell with neighbor count 0.
C22_NewRejectsDegenerate ==
    (ret # <<>> /\ ret.fresh) =>
        IF \/ args.fetch \in {"Release", "AcqRel"}
           \/ args.store \in {"Acquire", "AcqRel"}
        THEN ~ret.constructed /\ ret.panicked
        ELSE /\ ret.constructed /\ ~ret.panicked
             /\ ~alive(ret.state) /\ neighbors(ret.state) = 0
             /\ ret.state = 0

\* new(Relaxed, Acquire) has been called and has failed
C22_Witness ==
    /\ ret # <<>> /\ ret.fresh /\ ~ret.constructed
    /\ args.fetch = "Relaxed" /\ args.store = "Acquire"

\* new(SeqCst, Release) has returned a dead cell with count 0
C22_WitnessOk ==
    /\ ret # <<>> /\ ret.fresh /\ ret.constructed /\ ret.state = 0
    /\ args.fetch = "SeqCst" /\ args.store = "Release"
(***************************************************************************)
(* SpecApply: the turns of one whole-grid apply phase (_update_grid) on a  *)
(* grid of any size, with a tally of the cache cells update_cell_state     *)
(* reads.  ret is the tally, args.n the number of turns made.              *)
(***************************************************************************)
InitApply ==
    /\ NoCell /\ NoMT
    /\ H \in 1..MaxSide /\ W \in 1..MaxSide /\ T = 1
    /\ grid = [i \in 0..(H * W - 1) |-> 0]
    /\ cache = [i \in 0..(H * W - 1) |-> 0]
    /\ failed = FALSE /\ lastop = [kind |-> "new"] /\ nops = 0 /\ seedn = 0
    /\ args = [n |-> 0]
    /\ ret = [i \in 0..(H * W - 1) |-> 0]

\* one turn of `for x in 0..H { for y in 0..W { update_cell_state(x, y) } }`:
\* update_cell_state evaluates the rule at self.cache.get(x, y)
ApplyTurn ==
    /\ args.n < H * W
    /\ LET x == args.n \div W
           y == args.n % W
       IN  ret' = [ret EXCEPT ![get(x, y)] = @ + 1]
    /\ args' = [n |-> args.n + 1]
    /\ UNCHANGED <<cellVars, gridVars, mtVars>>

NextApply == ApplyTurn

SpecApply == InitApply /\ [][NextApply]_vars

\* C23: for every grid size H x W, H # W included, one whole-grid apply
\* phase evaluates the rule at each of the H*W cells exactly once: during
\* the phase no cell has been evaluated twice, and at its end none has been
\* skipped.
C23_EachCellOnce ==
    /\ \A i \in DOMAIN ret : ret[i] <= 1
    /\ args.n = H * W => \A i \in DOMAIN ret : ret[i] = 1

\* the same on square grids
C23_EachCellOnceSquare == (H = W) => C23_EachCellOnce
(***************************************************************************)
(* SpecLife: a torus with H, W >= 3 used as its callers use it: dead cells *)
(* are spawned, alive cells are killed, generations are run (u_generate),  *)
(* in any order.  seedn counts the spawn and kill calls, nops the          *)
(* generations.                                                            *)
(***************************************************************************)
InitLife ==
    /\ NoCell /\ NoPure /\ NoMT
    /\ H \in 3..MaxLifeSide /\ W \in 3..MaxLifeSide /\ H * W <= MaxLifeCells
    /\ T = 1
    /\ grid = [i \in 0..(H * W - 1) |-> 0]           \* AtomicGrid::new
    /\ cache = [i \in 0..(H * W - 1) |-> 0]          \* AtomicGenerator::new
    /\ failed = FALSE /\ lastop = [kind |-> "new"] /\ nops = 0
    /\ seedn = 0

\* grid.spawn(x, y) on a dead cell
LifeSpawn(x, y) ==
    /\ ~failed /\ seedn < MaxLifeOps
    /\ ~alive(grid[get(x, y)])
    /\ LET r == spawn(grid, x, y)
       IN  /\ grid' = r.cells
           /\ failed' = ~r.ok
    /\ lastop' = [kind |-> "spawn", x |-> x, y |-> y]
    /\ seedn' = seedn + 1
    /\ UNCHANGED <<cellVars, pureVars, mtVars, H, W, T, cache, nops>>

\* grid.kill(x, y) on an alive cell
LifeKill(x, y) ==
    /\ ~failed /\ seedn < MaxLifeOps
    /\ alive(grid[get(x, y)])
    /\ LET r == kill(grid, x, y)
       IN  /\ grid' = r.cells
           /\ failed' = ~r.ok
    /\ lastop' = [kind |-> "kill", x |-> x, y |-> y]
    /\ seedn' = seedn + 1
    /\ UNCHANGED <<cellVars, pureVars, mtVars, H, W, T, cache, nops>>

\* generator.u_generate()
LifeGenerate ==
    /\ ~failed /\ nops < MaxLifeGens
    /\ LET r == u_generate(grid)
       IN  /\ cache' = grid
           /\ grid' = r.cells
           /\ failed' = ~r.ok
    /\ lastop' = [kind |-> "generate"]
    /\ nops' = nops + 1
    /\ UNCHANGED <<cellVars, pureVars, mtVars, H, W, T, seedn>>

NextLife ==
    \/ \E x \in 0..(W - 1), y \in 0..(H - 1) : LifeSpawn(x, y)
    \/ \E x \in 0..(W - 1), y \in 0..(H - 1) : LifeKill(x, y)
    \/ LifeGenerate

SpecLife == InitLife /\ [][NextLife]_vars

\* C24: in every quiescent state reached from the all-dead grid by spawning
\* dead cells, killing alive cells and running generations on a torus with
\* H, W >= 3, each cell's neighbors() equals the number of alive cells
\* among its 8 toroidal neighbors.
C24_CountsMatchAlive == ~failed => Consistent(grid)

\* C24 on square grids, where no call fails either
C24_CountsMatchAliveSquare == (H = W) => (~failed /\ Consistent(grid))
(***************************************************************************)
(* SpecPair: every thread issues one operation on the same AtomicCell, the *)
(* operations run concurrently at the grain of fetch_update.  The byte the *)
(* cell held before and the operation of each thread are kept in args.     *)
(***************************************************************************)
InitPair ==
    /\ NoGrid /\ NoMT
    /\ args \in [old : CellBytes, ops : [Threads -> CellOps]]
    /\ ret = <<>>
    /\ state = args.old
    /\ tpc = [t \in Threads |-> "idle"]
    /\ top = [t \in Threads |-> args.ops[t]]
    /\ tprev = [t \in Threads |-> 0]
    /\ tpos = <<>>

\* fetch_update: `let mut prev = self.load(fetch_order)`
PairLoad(t) ==
    /\ tpc[t] = "idle"
    /\ tprev' = [tprev EXCEPT ![t] = state]
    /\ tpc' = [tpc EXCEPT ![t] = "cas"]
    /\ UNCHANGED <<state, top, tpos, gridVars, pureVars, mtVars>>

\* mutant of PairCas: the new byte is stored without the comparison
PairCas_NoCompare(t) ==
    /\ tpc[t] = "cas"
    /\ LET next == closure(top[t], tprev[t])
       IN  IF next = None
           THEN /\ tpc' = [tpc EXCEPT ![t] = "panicked"]
                /\ UNCHANGED state
           ELSE /\ state' = next
                /\ tpc' = [tpc EXCEPT ![t] = "done"]
    /\ tprev' = [tprev EXCEPT ![t] = 0]
    /\ UNCHANGED <<top, tpos, gridVars, pureVars, mtVars>>

\* fetch_update: one turn of `while let Some(next) = f(prev)`, with
\* compare_exchange_weak(prev, next, ..); None ends in .unwrap()/.expect()
PairCas(t) ==
    /\ tpc[t] = "cas"
    /\ LET next == closure(top[t], tprev[t])
       IN  IF next = None
           THEN /\ tpc' = [tpc EXCEPT ![t] = "panicked"]
                /\ tprev' = [tprev EXCEPT ![t] = 0]
                /\ UNCHANGED state
           ELSE IF state = tprev[t]
           THEN /\ state' = next
                /\ tpc' = [tpc EXCEPT ![t] = "done"]
                /\ tprev' = [tprev EXCEPT ![t] = 0]
           ELSE /\ tprev' = [tprev EXCEPT ![t] = state]
                /\ UNCHANGED <<state, tpc>>
    /\ UNCHANGED <<top, tpos, gridVars, pureVars, mtVars>>

NextPair ==
    \/ \E t \in Threads : PairLoad(t)
    \/ \E t \in Threads : PairCas(t)

SpecPair == InitPair /\ [][NextPair]_vars

\* the orders in which the threads' operations can be made one at a time
Orders == {p \in [1..NThreads -> Threads] :
              \A a, b \in 1..NThreads : p[a] = p[b] => a = b}

\* the operations made one after the other in order p, from the k-th on:
\* the byte left and the threads whose call panicked
RECURSIVE one_by_one(_, _, _)
one_by_one(r, p, k) ==
    IF k > NThreads THEN r
    ELSE LET next == closure(args.ops[p[k]], r.state)
         IN  one_by_one(IF next = None
                        THEN [r EXCEPT !.panicked = @ \cup {p[k]}]
                        ELSE [r EXCEPT !.state = next],
                        p, k + 1)

PairDone == \A t \in Threads : tpc[t] \in {"done", "panicked"}

\* C26: read-modify-write operations issued concurrently on one AtomicCell
\* all take effect: when they have ended, the byte and the calls that were
\* refused are those of the same operations made in some sequential order.
C26_ConcurrentAsSequential ==
    PairDone =>
        \E p \in Orders :
            LET r == one_by_one([state |-> args.old, panicked |-> {}], p, 1)
            IN  /\ state = r.state
                /\ {t \in Threads : tpc[t] = "panicked"} = r.panicked

\* a spawn and an add_neighbor issued concurrently on a dead cell with 3
\* neighbors have both ended: the cell is alive with 4 neighbors
C26_Witness ==
    /\ PairDone /\ args.old = 6
    /\ args.ops[1] = "spawn" /\ args.ops[2] = "add_neighbor"
    /\ state = 9
(***************************************************************************)
(* SpecRange: a grid seeded with any pattern, a snapshot, and one call of  *)
(* update_grid_range on any half-open range of rows 0..H and columns 0..W, *)
(* as the workers of multi_threaded call it (rows first).                  *)
(***************************************************************************)
\* AtomicGenerator::update_grid_range(top_left, bottom_right):
\* `for x in start_x..end_x { for y in start_y..end_y {..} }` from its n-th
\* turn on
RECURSIVE update_grid_range_from(_, _, _, _)
update_grid_range_from(r, cch, b, n) ==
    LET len_y == b.bottom_right[2] - b.top_left[2]
        turns == (b.bottom_right[1] - b.top_left[1]) * len_y
    IN  IF n >= turns \/ ~r.ok
        THEN r
        ELSE update_grid_range_from(
                 update_cell_state(r.cells, cch,
                                   b.top_left[1] + (n \div len_y),
                                   b.top_left[2] + (n % len_y)),
                 cch, b, n + 1)

update_grid_range(cells, cch, b) ==
    update_grid_range_from([cells |-> cells, ok |-> TRUE], cch, b, 0)

\* the ranges a caller can hand over: rows start_x..end_x within 0..H,
\* columns start_y..end_y within 0..W
Ranges ==
    {b \in [top_left : (0..H) \X (0..W), bottom_right : (0..H) \X (0..W)] :
        /\ b.top_left[1] <= b.bottom_right[1]
        /\ b.top_left[2] <= b.bottom_right[2]}

InitRange ==
    /\ NoCell /\ NoPure /\ NoMT
    /\ H \in 1..MaxH /\ W \in 1..MaxW /\ T = 1
    /\ grid = [i \in 0..(H * W - 1) |-> 0]           \* AtomicGrid::new
    /\ cache = [i \in 0..(H * W - 1) |-> 0]          \* AtomicGenerator::new
    /\ failed = FALSE /\ lastop = [kind |-> "new"] /\ nops = 0
    /\ seedn = 0

\* create_atomic_grid_from_file: the next character of the pattern
RangeSeed(value) ==
    /\ ~failed /\ seedn < H * W /\ nops = 0
    /\ LET r == IF value = "1"
                THEN spawn(grid, seedn % W, seedn \div W)
                ELSE [cells |-> grid, ok |-> TRUE]
       IN  /\ grid' = r.cells
           /\ failed' = ~r.ok
    /\ seedn' = seedn + 1
    /\ lastop' = [kind |-> "seed"]
    /\ UNCHANGED <<cellVars, pureVars, mtVars, H, W, T, cache, nops>>

\* u_update_cache(), then update_grid_range(b.top_left, b.bottom_right)
RangeApply(b) ==
    /\ ~failed /\ seedn = H * W /\ nops = 0
    /\ LET r == update_grid_range(grid, grid, b)
       IN  /\ cache' = grid
           /\ grid' = r.cells
           /\ failed' = ~r.ok
    /\ lastop' = [kind |-> "range", b |-> b]
    /\ nops' = nops + 1
    /\ UNCHANGED <<cellVars, pureVars, mtVars, H, W, T, seedn>>

NextRange ==
    \/ \E value \in {"0", "1"} : RangeSeed(value)
    \/ \E b \in Ranges : RangeApply(b)

SpecRange == InitRange /\ [][NextRange]_vars

\* the call changed the alive bit only of cells whose coordinates lie in
\* the range
AliveFrame ==
    lastop'.kind = "range" =>
        \A c \in Cells :
            (grid'[Idx(c)] % 2 # grid[Idx(c)] % 2)
                => c \in range_coords(lastop'.b)

\* C27: update_grid_range(top_left, bottom_right) changes the alive bit
\* only of cells whose coordinates lie inside the given half-open range;
\* the cells outside it can change only in their neighbor count.
C27_RangeFrame == [][AliveFrame]_vars

\* C27 on square grids only
C27_RangeFrameSquare == [][(H = W) => AliveFrame]_vars
(***************************************************************************)
(* SpecUndo: a torus of any size seeded with any pattern and put through   *)
(* at most one generation; then a dead cell is spawned and killed again.   *)
(* ret keeps the grid as it was before the spawn.                          *)
(***************************************************************************)
InitUndo ==
    /\ NoCell /\ NoMT
    /\ H \in 1..MaxH /\ W \in 1..MaxW /\ T = 1
    /\ grid = [i \in 0..(H * W - 1) |-> 0]           \* AtomicGrid::new
    /\ cache = [i \in 0..(H * W - 1) |-> 0]          \* AtomicGenerator::new
    /\ failed = FALSE /\ lastop = [kind |-> "new"] /\ nops = 0
    /\ seedn = 0
    /\ args = <<>>
    /\ ret = <<>>

\* create_atomic_grid_from_file: the next character of the pattern
UndoSeed(value) ==
    /\ ~failed /\ seedn < H * W /\ nops = 0 /\ args = <<>>
    /\ LET r == IF value = "1"
                THEN spawn(grid, seedn % W, seedn \div W)
                ELSE [cells |-> grid, ok |-> TRUE]
       IN  /\ grid' = r.cells
           /\ failed' = ~r.ok
    /\ seedn' = seedn + 1
    /\ lastop' = [kind |-> "seed"]
    /\ UNCHANGED <<cellVars, pureVars, mtVars, H, W, T, cache, nops>>

\* generator.u_generate()
UndoGenerate ==
    /\ ~failed /\ seedn = H * W /\ nops < 1 /\ args = <<>>
    /\ LET r == u_generate(grid)
       IN  /\ cache' = grid
           /\ grid' = r.cells
           /\ failed' = ~r.ok
    /\ lastop' = [kind |-> "generate"]
    /\ nops' = nops + 1
    /\ UNCHANGED <<cellVars, pureVars, mtVars, H, W, T, seedn>>

\* grid.spawn(x, y) on a dead cell
UndoSpawn(x, y) ==
    /\ ~failed /\ seedn = H * W /\ args = <<>>
    /\ ~alive(grid[get(x, y)])
    /\ args' = [x |-> x, y |-> y]
    /\ ret' = grid
    /\ LET r == spawn(grid, x, y)
       IN  /\ grid' = r.cells
           /\ failed' = ~r.ok
    /\ lastop' = [kind |-> "spawn", x |-> x, y |-> y]
    /\ UNCHANGED <<cellVars, mtVars, H, W, T, cache, nops, seedn>>

\* grid.kill(x, y) on the cell just spawned
UndoKill ==
    /\ ~failed /\ args # <<>> /\ lastop.kind = "spawn"
    /\ LET r == kill(grid, args.x, args.y)
       IN  /\ grid' = r.cells
           /\ failed' = ~r.ok
    /\ lastop' = [kind |-> "kill", x |-> args.x, y |-> args.y]
    /\ UNCHANGED <<cellVars, pureVars, mtVars, H, W, T, cache, nops, seedn>>

NextUndo ==
    \/ \E value \in {"0", "1"} : UndoSeed(value)
    \/ UndoGenerate
    \/ \E x \in 0..(W - 1), y \in 0..(H - 1) : UndoSpawn(x, y)
    \/ UndoKill

SpecUndo == InitUndo /\ [][NextUndo]_vars

\* C30: on any grid, spawn(x, y) on a dead cell followed by kill(x, y)
\* restores every cell of the grid to the packed byte it had before the
\* spawn; the kill that follows a spawn is never refused.
C30_KillUndoesSpawn ==
    lastop.kind = "kill" => (~failed /\ grid = ret)

\* on the 2x3 torus with alive cells, a dead cell has been spawned and
\* killed, and the grid is the one before the spawn
C30_Witness ==
    /\ lastop.kind = "kill" /\ ~failed /\ H = 2 /\ W = 3
    /\ grid = ret /\ \E i \in DOMAIN grid : alive(grid[i])
(***************************************************************************)
(* SpecCopyRace: thread 1 runs cache.copy_from(&grid) one cell at a time   *)
(* (the load of the destination cell, then the exchange), while the other  *)
(* threads each store a byte into a destination cell.  tpos[1] is the      *)
(* index copy_from has reached, tprev[1] the byte it loaded.               *)
(***************************************************************************)
Copier == 1
Writers == Threads \ {Copier}

InitCopyRace ==
    /\ NoPure /\ NoMT
    /\ H \in 1..MaxH /\ W \in 1..MaxW /\ H * W <= MaxCopy /\ T = 1
    /\ grid \in [0..(H * W - 1) -> CopyBytes]
    /\ cache \in [0..(H * W - 1) -> CopyBytes]
    /\ failed = FALSE /\ lastop = [kind |-> "new"] /\ nops = 0
    /\ seedn = 0
    /\ state = 0
    /\ tpc = [t \in Threads |-> IF t = Copier THEN "load" ELSE "idle"]
    /\ top = [t \in Threads |-> "none"]
    /\ tprev = [t \in Threads |-> 0]
    /\ tpos = [t \in Threads |-> 0]

\* compare_and_exchange: the first argument, self.state.load(self.fetch)
RaceLoad ==
    /\ tpc[Copier] = "load" /\ tpos[Copier] < H * W
    /\ tprev' = [tprev EXCEPT ![Copier] = cache[tpos[Copier]]]
    /\ tpc' = [tpc EXCEPT ![Copier] = "exchange"]
    /\ UNCHANGED <<state, top, tpos, gridVars, pureVars, mtVars>>

\* compare_and_exchange: `let _ = self.state.compare_exchange(loaded,
\* other.fetch(), self.fetch, self.store)`, then the next index of copy_from
RaceExchange ==
    /\ tpc[Copier] = "exchange"
    /\ LET i == tpos[Copier]
           next == compare_exchange(cache[i], tprev[Copier], grid[i],
                                    fetch, store)
       IN  IF next = None
           THEN /\ tpc' = [tpc EXCEPT ![Copier] = "panicked"]
                /\ failed' = TRUE
                /\ UNCHANGED <<cache, tpos>>
           ELSE /\ cache' = [cache EXCEPT ![i] = next]
                /\ tpos' = [tpos EXCEPT ![Copier] = i + 1]
                /\ tpc' = [tpc EXCEPT ![Copier] =
                              IF i + 1 < H * W THEN "load" ELSE "done"]
                /\ UNCHANGED failed
    /\ lastop' = [kind |-> "exchange", i |-> tpos[Copier],
                  raced |-> cache[tpos[Copier]] # tprev[Copier]]
    /\ tprev' = [tprev EXCEPT ![Copier] = 0]
    /\ UNCHANGED <<state, top, pureVars, mtVars, H, W, T, grid, nops, seedn>>

\* another thread: cell.store(value) on a destination cell
RaceStore(t, i, value) ==
    /\ t \in Writers /\ tpc[t] = "idle" /\ i \in DOMAIN cache
    /\ cache' = [cache EXCEPT ![i] = value]
    /\ tpc' = [tpc EXCEPT ![t] = "done"]
    /\ lastop' = [kind |-> "store", i |-> i, raced |-> FALSE]
    /\ UNCHANGED <<state, top, tprev, tpos, pureVars, mtVars, H, W, T, grid,
                   failed, nops, seedn>>

NextCopyRace ==
    \/ RaceLoad
    \/ RaceExchange
    \/ \E t \in Writers, i \in 0..(MaxCopy - 1), value \in CopyBytes :
          RaceStore(t, i, value)

SpecCopyRace == InitCopyRace /\ [][NextCopyRace]_vars

\* an exchange that found the destination cell changed since the load
\* leaves the cell with the other thread's byte and copy_from goes on
LostRaceIgnored ==
    (lastop'.kind = "exchange" /\ lastop'.raced) =>
        /\ cache' = cache
        /\ tpc'[Copier] \in {"load", "done"}

\* C32: copy_from makes one compare-and-exchange attempt per destination
\* cell and ignores its outcome: when another thread has changed the cell
\* between copy_from's load and its exchange, the cell keeps that thread's
\* byte, and copy_from goes on and returns normally.
C32_CopyIgnoresLostRace ==
    /\ [](tpc[Copier] # "panicked")
    /\ [][LostRaceIgnored]_vars
(***************************************************************************)
(* SpecSimple: a SimpleCell and an AtomicCell, both new, driven by the     *)
(* same calls in the same order by one thread.  SimpleCell's arithmetic is *)
(* plain u8 arithmetic: whether `count - 1` at 0 panics or wraps depends   *)
(* on the build (overflow-checks: on in the dev profile, off in release;   *)
(* the manifests set neither), so the build is drawn in Init.              *)
(***************************************************************************)
\* SimpleCell::spawn: self.0 |= 1
SimpleCell_spawn(b) ==
    [state |-> IF b % 2 = 1 THEN b ELSE b + 1, panicked |-> FALSE]

\* SimpleCell::kill: self.0 &= !1
SimpleCell_kill(b) ==
    [state |-> b - (b % 2), panicked |-> FALSE]

\* SimpleCell::add_neighbor:
\*   count = (self.0 >> 1) & 0b1111; assert!(count + 1 <= 8);
\*   self.0 = (self.0 & 1) | ((count + 1) << 1)
SimpleCell_add_neighbor(b) ==
    LET count == (b \div 2) % 16
    IN  IF count + 1 <= 8
        THEN [state |-> ((b % 2) + ((count + 1) * 2)) % 256,
              panicked |-> FALSE]
        ELSE [state |-> b, panicked |-> TRUE]

\* SimpleCell::remove_neighbor:
\*   count = (self.0 >> 1) & 0b1111;
\*   self.0 = (self.0 & 1) | ((count - 1) << 1)
\* count - 1 is a u8 subtraction: at count = 0 it panics when the build
\* checks overflow and is 255 when it does not; << 1 drops the top bit
SimpleCell_remove_neighbor(b, overflow_checks) ==
    LET count == (b \div 2) % 16
        less  == (count - 1) % 256
    IN  IF count = 0 /\ overflow_checks
        THEN [state |-> b, panicked |-> TRUE]
        ELSE [state |-> (b % 2) + ((less * 2) % 256), panicked |-> FALSE]

\* the SimpleCell method of the given name
SimpleCell_call(op, b, overflow_checks) ==
    CASE op = "spawn"           -> SimpleCell_spawn(b)
      [] op = "kill"            -> SimpleCell_kill(b)
      [] op = "add_neighbor"    -> SimpleCell_add_neighbor(b)
      [] op = "remove_neighbor" -> SimpleCell_remove_neighbor(b, overflow_checks)

\* the AtomicCell method of the given name, with no other thread on the
\* cell: the closure's None is the panic of unwrap / expect
AtomicCell_call(op, b) ==
    LET next == closure(op, b)
    IN  IF next = None
        THEN [state |-> b, panicked |-> TRUE]
        ELSE [state |-> next, panicked |-> FALSE]

\* SimpleCell::new() and AtomicCell::default(): both hold 0
InitSimple ==
    /\ NoCell /\ NoGrid /\ NoMT
    /\ args \in [overflow_checks : BOOLEAN]
    /\ ret = [simple |-> [state |-> 0, panicked |-> FALSE],
              atomic |-> [state |-> 0, panicked |-> FALSE],
              op |-> "new"]

\* one call, made on both cells; a call that panics leaves its cell as it
\* was (the caller catches the unwind and goes on)
SimpleStep(op) ==
    /\ ret' = [simple |-> SimpleCell_call(op, ret.simple.state,
                                          args.overflow_checks),
               atomic |-> AtomicCell_call(op, ret.atomic.state),
               op |-> op]
    /\ UNCHANGED <<cellVars, gridVars, mtVars, args>>

NextSimple == \E op \in CellOps : SimpleStep(op)

SpecSimple == InitSimple /\ [][NextSimple]_vars

\* C34: after every call of a common sequence of spawn / kill /
\* add_neighbor / remove_neighbor the SimpleCell and the AtomicCell hold the
\* same packed byte, and a call fails on one exactly when it fails on the
\* other.
C34_SimpleMatchesAtomic ==
    /\ ret.simple.state = ret.atomic.state
    /\ ret.simple.panicked = ret.atomic.panicked

\* the same, in builds that check integer overflow
C34_SimpleMatchesAtomicChecked ==
    args.overflow_checks =>
        /\ ret.simple.state = ret.atomic.state
        /\ ret.simple.panicked = ret.atomic.panicked

\* both cells have refused an add_neighbor at a count of 8
C34_WitnessAddAtEight ==
    /\ ret.op = "add_neighbor"
    /\ ret.simple.panicked /\ ret.atomic.panicked
    /\ ret.simple.state = 17 /\ ret.atomic.state = 17
(***************************************************************************)
(* SpecUnsafeCopy: dest.unsafe_copy_from(&src) as a function of the two    *)
(* cell vectors.  The assertion compares self.cells.len() with             *)
(* other.cells.len() at run time, so the vectors are drawn with every pair *)
(* of lengths; `cache` is the destination (self), `grid` the source.       *)
(***************************************************************************)
InitUnsafeCopy ==
    /\ NoCell /\ NoMT
    /\ H = 1 /\ T = 1
    /\ W \in 1..MaxCopy
    /\ cache \in [0..(W - 1) -> CopyBytes]
    /\ \E n \in 1..MaxCopy : grid \in [0..(n - 1) -> CopyBytes]
    /\ failed = FALSE /\ lastop = [kind |-> "new"] /\ nops = 0
    /\ seedn = 0
    /\ args = <<>> /\ ret = <<>>

\* the call: ret keeps the destination as it was before
UnsafeCopy ==
    /\ lastop.kind = "new"
    /\ LET r == unsafe_copy_from(cache, grid)
       IN  /\ cache' = r.cells
           /\ failed' = ~r.ok
    /\ ret' = [before |-> cache]
    /\ lastop' = [kind |-> "unsafe_copy_from"]
    /\ UNCHANGED <<cellVars, mtVars, H, W, T, grid, nops, seedn, args>>

NextUnsafeCopy == UnsafeCopy

SpecUnsafeCopy == InitUnsafeCopy /\ [][NextUnsafeCopy]_vars

\* C36: unsafe_copy_from compares the two grids' numbers of cells before it
\* copies: when they differ the call fails and every destination cell is as
\* it was; when they agree the call succeeds.
C36_LengthCheckedFirst ==
    lastop.kind = "unsafe_copy_from" =>
        IF DOMAIN ret.before # DOMAIN grid
        THEN failed /\ cache = ret.before
        ELSE ~failed

\* a two-cell destination was asked to copy a one-cell source whose byte
\* differs from the destination's first: the call failed
C36_Witness ==
    /\ lastop.kind = "unsafe_copy_from"
    /\ DOMAIN ret.before = 0..1 /\ DOMAIN grid = 0..0
    /\ ret.before[0] # grid[0]
    /\ failed
====
